---------------------------- MODULE Spec2Model ----------------------------
(***************************************************************************)
(* SharedModuleRegistry (src/engine/extensions/sharedModules/index.ts):    *)
(* descriptor store, version comparator, load coordinator with pending-    *)
(* load deduplication, reference counting and the requireAll batch; the   *)
(* consumer facade and the extension loader of the same file.              *)
(*                                                                         *)
(* Strings of the program (names, versions, ranges, cache keys) are        *)
(* sequences of one-character strings, so that slicing, prefix tests,      *)
(* splitting and number parsing are computed as the code computes them.    *)
(***************************************************************************)
EXTENDS Integers, Sequences, FiniteSets, TLC

(***************************************************************************)
(* Text primitives used by the registry.                                   *)
(***************************************************************************)
Digits == {"0", "1", "2", "3", "4", "5", "6", "7", "8", "9"}

DigitVal(c) ==
  CASE c = "0" -> 0 [] c = "1" -> 1 [] c = "2" -> 2 [] c = "3" -> 3
    [] c = "4" -> 4 [] c = "5" -> 5 [] c = "6" -> 6 [] c = "7" -> 7
    [] c = "8" -> 8 [] c = "9" -> 9

\* String.prototype.startsWith
startsWith(s, prefix) ==
  /\ Len(prefix) <= Len(s)
  /\ SubSeq(s, 1, Len(prefix)) = prefix

\* String.prototype.slice(n) for 0 <= n
slice(s, n) == IF n >= Len(s) THEN <<>> ELSE SubSeq(s, n + 1, Len(s))

\* v.replace(/^[^0-9]*/, ''): drop the longest prefix holding no digit
RECURSIVE stripNonDigitPrefix(_)
stripNonDigitPrefix(s) ==
  IF s = <<>> \/ Head(s) \in Digits THEN s ELSE stripNonDigitPrefix(Tail(s))

\* s.split('.'): the pieces between the dots; a string with no dot is one piece
RECURSIVE splitDots(_, _)
splitDots(s, cur) ==
  IF s = <<>> THEN <<cur>>
  ELSE IF Head(s) = "." THEN <<cur>> \o splitDots(Tail(s), <<>>)
  ELSE splitDots(Tail(s), Append(cur, Head(s)))

RECURSIVE digitsValue(_, _)
digitsValue(s, acc) ==
  IF s = <<>> THEN acc ELSE digitsValue(Tail(s), 10 * acc + DigitVal(Head(s)))

allDigits(s) == \A i \in 1..Len(s) : s[i] \in Digits

\* Number(piece) over the alphabet of the model (digits, sign, letters):
\* "" is 0, an optionally signed digit string is its value, anything else NaN.
Number(piece) ==
  IF piece = <<>> THEN [nan |-> FALSE, val |-> 0]
  ELSE IF allDigits(piece) THEN [nan |-> FALSE, val |-> digitsValue(piece, 0)]
  ELSE IF Head(piece) \in {"-", "+"} /\ Len(piece) > 1 /\ allDigits(Tail(piece))
    THEN [nan |-> FALSE,
          val |-> IF Head(piece) = "-" THEN 0 - digitsValue(Tail(piece), 0)
                  ELSE digitsValue(Tail(piece), 0)]
  ELSE [nan |-> TRUE, val |-> 0]

\* parts[i] || 0: a missing piece (undefined), NaN and 0 all read as 0
partOrZero(parts, i) ==
  IF i > Len(parts) THEN 0
  ELSE LET n == Number(parts[i]) IN IF n.nan THEN 0 ELSE n.val

(***************************************************************************)
(* Version comparator.                                                     *)
(***************************************************************************)
parseVersion(v) ==
  LET parts == splitDots(stripNonDigitPrefix(v), <<>>)
  IN  <<partOrZero(parts, 1), partOrZero(parts, 2), partOrZero(parts, 3)>>

\* a variant that compares major and minor only
compareVersionsNoPatch(a, b) ==
  LET pa == parseVersion(a)
      pb == parseVersion(b)
  IN  IF pa[1] # pb[1] THEN pa[1] - pb[1] ELSE pa[2] - pb[2]

compareVersions(a, b) ==
  LET pa == parseVersion(a)
      pb == parseVersion(b)
  IN  IF pa[1] # pb[1] THEN pa[1] - pb[1]
      ELSE IF pa[2] # pb[2] THEN pa[2] - pb[2]
      ELSE pa[3] - pb[3]

STAR == <<"*">>
LATEST == <<"l", "a", "t", "e", "s", "t">>

satisfies(version, range) ==
  IF range = STAR \/ range = LATEST THEN TRUE
  ELSE IF startsWith(range, <<"^">>) THEN
    LET rv == slice(range, 1)
    IN  /\ parseVersion(rv)[1] = parseVersion(version)[1]
        /\ compareVersions(version, rv) >= 0
  ELSE IF startsWith(range, <<"~">>) THEN
    LET rv == slice(range, 1)
    IN  /\ parseVersion(rv)[1] = parseVersion(version)[1]
        /\ parseVersion(rv)[2] = parseVersion(version)[2]
        /\ compareVersions(version, rv) >= 0
  ELSE IF startsWith(range, <<">", "=">>) THEN
    compareVersions(version, slice(range, 2)) >= 0
  ELSE version = range

(***************************************************************************)
(* Data of the model.                                                      *)
(***************************************************************************)
NX == <<"x">>
NY == <<"y">>
AT == <<"@">>
V100 == <<"1", ".", "0", ".", "0">>
V200 == <<"2", ".", "0", ".", "0">>
V120 == <<"1", ".", "2", ".", "0">>
CARET100 == <<"^">> \o V100
NoGlobal == <<>>
GX == <<"X">>
GY == <<"Y">>

\* SharedModuleDescriptor: localPath and cdnUrl are kept as present/absent
Desc(n, v, deps, lp, cdn, g, fmt) ==
  [name |-> n, version |-> v, dependencies |-> deps, localPath |-> lp,
   cdnUrl |-> cdn, globalName |-> g, format |-> fmt]

\* the descriptors the host may register, shaped after SHARED_MODULES_CONFIG:
\* a module found only under a global binding (react), a module with a local
\* bundle, a CDN URL and a dependency (rehype-katex), and a UMD module with a
\* CDN script and a global binding (prismjs)
X1 == Desc(NX, V100, <<>>, FALSE, FALSE, GX, "esm")
X2 == Desc(NX, V200, <<NY>>, TRUE, TRUE, NoGlobal, "esm")
Y1 == Desc(NY, V120, <<>>, FALSE, TRUE, GY, "umd")
Catalog == {X1, X2, Y1}


MaxResolvers == 1
MaxCalls == 2
MaxRelease == 2
MaxBatch == 1
\* the depth of nested require calls the engine's call stack holds
MaxStack == 2

VARIABLES
  descriptors,  \* Map name -> descriptor list (a function on the known names)
  resolvers,    \* the resolver list, in registration order
  loaded,       \* Map key -> LoadedModule, as the entries in insertion order
  loading,      \* Map cacheKey -> the pending load (a function on pending keys)
  loads,        \* every loadModule invocation: its position and its outcome
  calls,        \* every require invocation: its position and its outcome
  batches,      \* every requireAll invocation
  releases,     \* number of release calls made
  probe,        \* argument/result cell of the pure-function specifications
  used,         \* the usage record of each consumer facade
  facadeCalls,  \* every require made through a facade
  released,     \* the last release made through a facade
  extCalls,     \* every loadExtensionWithSharedModules invocation
  installs,     \* every assignment to a window slot, in order
  urls,         \* every object URL created, with its revoked flag
  registerCalls \* how many times each descriptor was passed to register

hostVars == <<used, facadeCalls, released, extCalls, installs, urls>>

vars == <<descriptors, resolvers, loaded, loading, loads, calls, batches,
          releases, probe, used, facadeCalls, released, extCalls,
          installs, urls, registerCalls>>

(***************************************************************************)
(* Descriptor store.                                                       *)
(***************************************************************************)
\* Array.prototype.sort((a, b) => compareVersions(b.version, a.version)) is a
\* stable sort: x goes before the first element the comparator puts after it
RECURSIVE insertSorted(_, _)
insertSorted(arr, x) ==
  IF arr = <<>> THEN <<x>>
  ELSE IF compareVersions(x.version, Head(arr).version) > 0
    THEN <<x>> \o arr
  ELSE <<Head(arr)>> \o insertSorted(Tail(arr), x)

RECURSIVE sortDescending(_)
sortDescending(arr) ==
  IF arr = <<>> THEN <<>>
  ELSE insertSorted(sortDescending(SubSeq(arr, 1, Len(arr) - 1)), arr[Len(arr)])

\* a variant that pushes without sorting
registerUnsorted(ds, d) ==
  LET arr == IF d.name \in DOMAIN ds THEN ds[d.name] ELSE <<>>
  IN  [n \in DOMAIN ds \cup {d.name} |->
         IF n = d.name THEN Append(arr, d) ELSE ds[n]]

\* a variant that keeps one entry per name and version
registerReplacing(ds, d) ==
  LET arr == IF d.name \in DOMAIN ds THEN ds[d.name] ELSE <<>>
  IN  [n \in DOMAIN ds \cup {d.name} |->
         IF n # d.name THEN ds[n]
         ELSE IF \E i \in 1..Len(arr) : arr[i].version = d.version THEN arr
         ELSE sortDescending(Append(arr, d))]

\* lines 34-38: push, sort descending, store the list under the name
register(ds, d) ==
  LET arr == IF d.name \in DOMAIN ds THEN ds[d.name] ELSE <<>>
  IN  [n \in DOMAIN ds \cup {d.name} |->
         IF n = d.name THEN sortDescending(Append(arr, d)) ELSE ds[n]]

\* lines 42-44: for (const d of list) this.register(d)
RECURSIVE registerAll(_, _)
registerAll(ds, list) ==
  IF list = <<>> THEN ds ELSE registerAll(register(ds, Head(list)), Tail(list))

\* one more call of register with d
countCall(rc, d) ==
  [x \in DOMAIN rc \cup {d} |->
     IF x = d THEN (IF d \in DOMAIN rc THEN rc[d] + 1 ELSE 1) ELSE rc[x]]

\* index of the first descriptor of the list satisfying the range, 0 for null
\* a variant that takes the newest descriptor of the name whatever the range
findCompatibleDescriptorAny(ds, name, range) ==
  IF name \in DOMAIN ds /\ ds[name] # <<>> THEN 1 ELSE 0

RECURSIVE firstSatisfying(_, _, _)
firstSatisfying(list, range, i) ==
  IF i > Len(list) THEN 0
  ELSE IF satisfies(list[i].version, range) THEN i
  ELSE firstSatisfying(list, range, i + 1)

findCompatibleDescriptor(ds, name, range) ==
  IF name \notin DOMAIN ds THEN 0 ELSE firstSatisfying(ds[name], range, 1)

(***************************************************************************)
(* Values: module handles and errors.  A handle made by a source is named  *)
(* by the load and the source that made it; the object behind a global     *)
(* binding is the same object for every reader.                            *)
(***************************************************************************)
Undefined == [load |-> 0, src |-> "undefined", idx |-> 0]
Produced(lid, src, j) == [load |-> lid, src |-> src, idx |-> j]
WindowObject == [load |-> 0, src |-> "window", idx |-> 0]
Err(lid, tag, j) == [load |-> lid, src |-> tag, idx |-> j]
windowValue(w, g) == IF g \in w THEN WindowObject ELSE Undefined
truthy(v) == v # Undefined

Pending == [st |-> "pending", val |-> Undefined]
Fulfilled(v) == [st |-> "ok", val |-> v]
Rejected(e) == [st |-> "err", val |-> e]

NullDesc == Desc(<<>>, <<>>, <<>>, FALSE, FALSE, NoGlobal, "none")

(***************************************************************************)
(* Load coordinator: the loaded-instance cache and the pending map.        *)
(***************************************************************************)
\* a variant that keys by the name alone
cacheKeyByName(name, range) == name \o AT

\* `${name}@${versionRange}`, and `${descriptor.name}@${descriptor.version}`
cacheKey(name, range) == name \o AT \o range

\* Map.set: an existing key keeps its place, a new key goes last; before it a
\* variant that stores nothing
mapSetDropped(m, k, v) == m
mapSet(m, k, v) == [x \in DOMAIN m \cup {k} |-> IF x = k THEN v ELSE m[x]]
\* a variant of Map.delete that removes nothing
mapDeleteKept(m, k) == m

\* Map.delete
mapDelete(m, k) == [x \in DOMAIN m \ {k} |-> m[x]]

RECURSIVE firstLoaded(_, _, _, _)
firstLoaded(ld, name, range, i) ==
  IF i > Len(ld) THEN 0
  ELSE IF /\ startsWith(ld[i].key, name \o AT)
          /\ satisfies(ld[i].descriptor.version, range) THEN i
  ELSE firstLoaded(ld, name, range, i + 1)

\* a variant that looks the entry up under the key of the request
findCompatibleLoadedByKey(ld, name, range) ==
  IF \E i \in 1..Len(ld) : ld[i].key = cacheKey(name, range)
  THEN CHOOSE i \in 1..Len(ld) : ld[i].key = cacheKey(name, range)
  ELSE 0

\* index of the entry found, 0 for null
findCompatibleLoaded(ld, name, range) == firstLoaded(ld, name, range, 1)

keyIndex(ld, key) ==
  IF \E i \in 1..Len(ld) : ld[i].key = key
  THEN CHOOSE i \in 1..Len(ld) : ld[i].key = key
  ELSE 0

\* a variant that stores the entry under the requested name only
cacheModuleByName(ld, descriptor, module) ==
  Append(ld, [key |-> descriptor.name, descriptor |-> descriptor,
              module |-> module, refCount |-> 1])

cacheModule(ld, descriptor, module) ==
  LET key == cacheKey(descriptor.name, descriptor.version)
      entry == [key |-> key, descriptor |-> descriptor, module |-> module,
                refCount |-> 1]
      i == keyIndex(ld, key)
  IN  IF i = 0 THEN Append(ld, entry) ELSE [ld EXCEPT ![i] = entry]

\* a variant without the floor at zero
decrementUnfloored(n) == n - 1

\* Math.max(0, refCount - 1)
decrementFloored(n) == IF n - 1 > 0 THEN n - 1 ELSE 0

release(ld, name, range) ==
  LET i == findCompatibleLoaded(ld, name, range)
  IN  IF i = 0 THEN ld
      ELSE [ld EXCEPT ![i].refCount = decrementFloored(@)]

\* a variant that never finds a pending load
joinsPendingNever(lg, key) == FALSE

\* this.loading.has(cacheKey)
joinsPending(lg, key) == key \in DOMAIN lg

(***************************************************************************)
(* loadModule: the source chain.  st is the registry state threaded        *)
(* through one synchronous run: [loaded, loading, loads, calls], with the   *)
(* global bindings the run reads (window).                                 *)
(***************************************************************************)
tried(st, lid, src, j) ==
  [st EXCEPT !.loads[lid].attempted = Append(@, [src |-> src, idx |-> j])]

finishOk(st, lid, module) ==
  [st EXCEPT !.loaded = cacheModule(@, st.loads[lid].desc, module),
             !.loads[lid].stage = "done",
             !.loads[lid].out = Fulfilled(module)]

finishErr(st, lid, e) ==
  [st EXCEPT !.loads[lid].stage = "done", !.loads[lid].out = Rejected(e)]

\* lines 130-135: the global binding, then the final throw
globalStep(st, lid) ==
  LET d == st.loads[lid].desc
  IN  IF d.globalName # NoGlobal
      THEN LET g == windowValue(st.window, d.globalName)
               s1 == tried(st, lid, "global", 0)
           IN  IF truthy(g) THEN finishOk(s1, lid, g)
               ELSE finishErr(s1, lid, Err(lid, "CouldNotLoad", 0))
      ELSE finishErr(st, lid, Err(lid, "CouldNotLoad", 0))

\* lines 121-123: start the CDN load when the descriptor has a cdnUrl
cdnStep(st, lid) ==
  IF st.loads[lid].desc.cdnUrl
  THEN [tried(st, lid, "cdn", 0) EXCEPT !.loads[lid].stage = "cdn"]
  ELSE globalStep(st, lid)

\* lines 112-114: start the local load when the descriptor has a localPath
localStep(st, lid) ==
  IF st.loads[lid].desc.localPath
  THEN [tried(st, lid, "local", 0) EXCEPT !.loads[lid].stage = "local"]
  ELSE cdnStep(st, lid)

\* a variant that goes from the resolvers to the CDN URL first
resolverStepCdnFirst(st, lid, j) ==
  IF j <= Len(resolvers)
  THEN [tried(st, lid, "resolver", j) EXCEPT !.loads[lid].stage = "resolver",
                                              !.loads[lid].idx = j]
  ELSE cdnStep(st, lid)

\* lines 107-108: call resolver j, or leave the loop
resolverStep(st, lid, j) ==
  IF j <= Len(resolvers)
  THEN [tried(st, lid, "resolver", j) EXCEPT !.loads[lid].stage = "resolver",
                                              !.loads[lid].idx = j]
  ELSE localStep(st, lid)

\* loadFromLocal / loadFromCdn, lines 138-166: an ES module import yields the
\* module namespace; a script element yields the global binding when the
\* descriptor names one and rejects otherwise; a failed fetch rejects
fetchOutcome(d, lid, src, ok, w) ==
  IF ~ok THEN Rejected(Err(lid, "FetchFailed", 0))
  ELSE IF d.format = "esm" THEN Fulfilled(Produced(lid, src, 0))
  ELSE IF d.globalName # NoGlobal
    THEN Fulfilled(windowValue(w, d.globalName))
  ELSE Rejected(Err(lid, "UmdNeedsGlobalName", 0))

\* lines 108-109 resumed: res came back from resolver j
afterResolver(st, lid, outcome) ==
  LET j == st.loads[lid].idx
  IN  CASE outcome = "value" -> finishOk(st, lid, Produced(lid, "resolver", j))
        [] outcome = "absent" -> resolverStep(st, lid, j + 1)
        [] outcome = "error" -> finishErr(st, lid, Err(lid, "ResolverError", j))

\* lines 114-118 resumed
afterLocal(st, lid, ok) ==
  LET r == fetchOutcome(st.loads[lid].desc, lid, "local", ok, st.window)
  IN  IF r.st = "ok" THEN finishOk(st, lid, r.val) ELSE cdnStep(st, lid)

\* lines 123-127 resumed
afterCdn(st, lid, ok) ==
  LET r == fetchOutcome(st.loads[lid].desc, lid, "cdn", ok, st.window)
  IN  IF r.st = "ok" THEN finishOk(st, lid, r.val) ELSE globalStep(st, lid)

(***************************************************************************)
(* require and loadModule up to their first await.  A call of an async     *)
(* function runs synchronously to its first await, so require runs         *)
(* loadModule, and loadModule runs the require of its first dependency,    *)
(* before line 59 stores the pending entry.                                *)
(***************************************************************************)
NewCall(name, range, parent, batch, kind, lid, entry, out) ==
  [name |-> name, range |-> range, parent |-> parent, batch |-> batch,
   kind |-> kind, lid |-> lid, entry |-> entry,
   done |-> kind # "load", out |-> out]

NewLoad(name, range, d) ==
  [name |-> name, range |-> range, desc |-> d, stage |-> "start", idx |-> 0,
   await |-> 0, attempted |-> <<>>, out |-> Pending]

RECURSIVE requireSync(_, _, _, _, _)
RECURSIVE loadModuleSync(_, _, _)
RECURSIVE requireDeps(_, _, _)

\* a variant that requires the dependencies last to first
requireDepsReversed(st, lid, i) ==
  LET d == st.loads[lid].desc
      n == Len(d.dependencies)
  IN  IF i <= n
      THEN LET cid == Len(st.calls) + 1
               s1 == requireSync(st, d.dependencies[n + 1 - i], STAR, lid, 0)
           IN  [s1 EXCEPT !.loads[lid].stage = "dep", !.loads[lid].idx = i,
                          !.loads[lid].await = cid]
      ELSE resolverStep(st, lid, 1)

\* lines 103-105: require dependency i and await it, or go on to the sources
requireDeps(st, lid, i) ==
  LET d == st.loads[lid].desc
  IN  IF i <= Len(d.dependencies)
      THEN LET cid == Len(st.calls) + 1
               s1 == requireSync(st, d.dependencies[i], STAR, lid, 0)
           IN  [s1 EXCEPT !.loads[lid].stage = "dep", !.loads[lid].idx = i,
                          !.loads[lid].await = cid]
      ELSE resolverStep(st, lid, 1)

\* lines 99-105
loadModuleSync(st, name, range) ==
  LET lid == Len(st.loads) + 1
      i == findCompatibleDescriptor(descriptors, name, range)
  IN  IF i = 0
      THEN finishErr([st EXCEPT !.loads = Append(@, NewLoad(name, range, NullDesc))],
                     lid, Err(lid, "NoDescriptor", 0))
      ELSE requireDeps(
             [st EXCEPT !.loads = Append(@, NewLoad(name, range, descriptors[name][i]))],
             lid, 1)

\* lines 50-59; a call nested deeper than the call stack holds throws a
\* RangeError, which rejects the promise of that call
requireSync(st, name, range, parent, batch) ==
  LET cid == Len(st.calls) + 1
      cached == findCompatibleLoaded(st.loaded, name, range)
      key == cacheKey(name, range)
  IN  IF st.depth >= MaxStack
      THEN [st EXCEPT !.calls = Append(@, NewCall(name, range, parent, batch, "thrown",
                                  0, 0, Rejected(Err(0, "RangeError", 0))))]
      ELSE IF cached # 0
      THEN [st EXCEPT !.loaded[cached].refCount = @ + 1,
                      !.calls = Append(@, NewCall(name, range, parent, batch, "hit",
                                  0, cached, Fulfilled(st.loaded[cached].module)))]
      ELSE IF joinsPending(st.loading, key)
      THEN [st EXCEPT !.calls = Append(@, NewCall(name, range, parent, batch, "join",
                                  st.loading[key], 0, Pending))]
      ELSE LET lid == Len(st.loads) + 1
               s1 == [st EXCEPT !.calls = Append(@, NewCall(name, range, parent,
                                  batch, "load", lid, 0, Pending))]
               s2 == loadModuleSync([s1 EXCEPT !.depth = @ + 1], name, range)
           IN  [s2 EXCEPT !.loading = mapSet(@, key, lid), !.depth = st.depth]

\* what the promise returned by call cid has settled to: a joined call
\* returned the pending load's own promise
callOutcome(st, cid) ==
  IF st.calls[cid].kind = "join" THEN st.loads[st.calls[cid].lid].out
  ELSE st.calls[cid].out

\* a variant in which the awaiting require never resumes
requireResumeNever(st, cid) == st

\* lines 60-65 resumed: the awaited load has settled
requireResume(st, cid) ==
  LET c == st.calls[cid]
  IN  [st EXCEPT !.loading = mapDelete(@, cacheKey(c.name, c.range)),
                 !.calls[cid].done = TRUE,
                 !.calls[cid].out = st.loads[c.lid].out]

\* a variant that goes on whatever the dependency settled to
afterDepIgnoresFailure(st, lid) == requireDeps(st, lid, st.loads[lid].idx + 1)

\* line 104 resumed: the awaited dependency has settled
afterDep(st, lid) ==
  LET r == callOutcome(st, st.loads[lid].await)
  IN  IF r.st = "err" THEN finishErr(st, lid, r.val)
      ELSE requireDeps(st, lid, st.loads[lid].idx + 1)

(***************************************************************************)
(* requireAll: every mapper runs to its await inside the call of           *)
(* requests.map, in list order; Promise.all settles from the mappers.      *)
(***************************************************************************)
Request(n, r, o) == [name |-> n, versionRange |-> r, optional |-> o]

\* lines 78-80: the mappers up to their await; the items carry each call
RECURSIVE mapRequests(_, _, _, _)
mapRequests(st, requests, bid, items) ==
  IF requests = <<>> THEN [st |-> st, items |-> items]
  ELSE LET req == Head(requests)
           cid == Len(st.calls) + 1
       IN  CHOOSE r \in
             { mapRequests(s1, Tail(requests), bid,
                           Append(items, [name |-> req.name, optional |-> req.optional,
                                          cid |-> cid, state |-> "await"]))
               : s1 \in {requireSync(st, req.name, req.versionRange, 0, bid)} } : TRUE

\* results.set(name, m)
resultsSet(results, name, m) ==
  IF \E i \in 1..Len(results) : results[i].name = name
  THEN [i \in 1..Len(results) |->
          IF results[i].name = name THEN [name |-> name, module |-> m]
          ELSE results[i]]
  ELSE Append(results, [name |-> name, module |-> m])

\* a variant that rethrows the failure of an optional request too
mapperRethrowsAlways(optional) == TRUE

\* line 83: if (!req.optional) throw e
mapperRethrows(optional) == ~optional

\* lines 80-85 resumed for item i, then Promise.all of line 77: it rejects with
\* the first mapper that throws and fulfils once every mapper has returned
mapperResume(b, i, r) ==
  LET it == b.items[i]
      b1 == IF r.st = "ok"
            THEN [b EXCEPT !.items[i].state = "set",
                           !.results = resultsSet(@, it.name, r.val)]
            ELSE IF mapperRethrows(it.optional)
            THEN [b EXCEPT !.items[i].state = "thrown"]
            ELSE [b EXCEPT !.items[i].state = "skipped"]
  IN  IF b1.out.st # "pending" THEN b1
      ELSE IF b1.items[i].state = "thrown" THEN [b1 EXCEPT !.out = Rejected(r.val)]
      ELSE IF \A k \in 1..Len(b1.items) : b1.items[k].state \in {"set", "skipped"}
      THEN [b1 EXCEPT !.out = Fulfilled(Undefined)]
      ELSE b1

(***************************************************************************)
(* The state machine.                                                      *)
(***************************************************************************)
EmptyMap == [x \in {} |-> 0]
NoProbe == [version |-> <<>>, range |-> <<>>, result |-> "none"]

\* the registry now, read with the global bindings w
Cur(w) == [loaded |-> loaded, loading |-> loading, loads |-> loads,
           calls |-> calls, window |-> w, depth |-> 0]

Commit(s) ==
  /\ loaded' = s.loaded
  /\ loading' = s.loading
  /\ loads' = s.loads
  /\ calls' = s.calls

\* the descriptors registered so far
registeredSet == UNION {{descriptors[n][i] : i \in 1..Len(descriptors[n])} :
                        n \in DOMAIN descriptors}

\* the host seeds the catalog and the resolvers at startup, before the first
\* require, and registers no descriptor twice
Startup == calls = <<>> /\ batches = <<>> /\ releases = 0

\* the global bindings are the host's: a read may find the binding defined or
\* not; one step of a load reads at most one binding, so it is enough to
\* choose between none defined and all defined at each step
Windows == {{}, {GX, GY}}

\* the extension ids facades are created for
Facades == {1, 2}

\* nothing was registered, required, loaded or installed through the host
\* API yet
HostInit ==
  /\ used = [f \in Facades |-> <<>>]
  /\ facadeCalls = <<>>
  /\ released = [facade |-> 0, name |-> <<>>, range |-> <<>>, nth |-> 0]
  /\ extCalls = <<>>
  /\ installs = <<>>
  /\ urls = <<>>
  /\ registerCalls = EmptyMap

Init ==
  /\ descriptors = EmptyMap
  /\ resolvers = <<>>
  /\ loaded = <<>>
  /\ loading = EmptyMap
  /\ loads = <<>>
  /\ calls = <<>>
  /\ batches = <<>>
  /\ releases = 0
  /\ probe = NoProbe
  /\ HostInit

\* register(d)
Register(d) ==
  /\ Startup
  /\ d \notin registeredSet
  /\ descriptors' = register(descriptors, d)
  /\ registerCalls' = countCall(registerCalls, d)
  /\ UNCHANGED <<resolvers, loaded, loading, loads, calls, batches, releases,
                 probe>>
  /\ UNCHANGED hostVars

\* addResolver(resolver)
AddResolver ==
  /\ Startup
  /\ Len(resolvers) < MaxResolvers
  /\ resolvers' = Append(resolvers, Len(resolvers) + 1)
  /\ UNCHANGED <<descriptors, loaded, loading, loads, calls, batches, releases,
                 probe>>
  /\ UNCHANGED <<hostVars, registerCalls>>

\* a caller calls require(name, range); cap bounds the calls of a behaviour
RequireWithin(cap, name, range, w) ==
  /\ Len(calls) < cap
  /\ \E s \in {requireSync(Cur(w), name, range, 0, 0)} :
       /\ Len(s.calls) <= cap
       /\ Commit(s)
  /\ UNCHANGED <<descriptors, resolvers, batches, releases, probe>>
  /\ UNCHANGED <<hostVars, registerCalls>>

Require(name, range, w) == RequireWithin(MaxCalls, name, range, w)

\* a caller calls release(name, range)
Release(name, range) ==
  /\ releases < MaxRelease
  /\ releases' = releases + 1
  /\ loaded' = release(loaded, name, range)
  /\ UNCHANGED <<descriptors, resolvers, loading, loads, calls, batches, probe>>
  /\ UNCHANGED <<hostVars, registerCalls>>

\* a caller calls requireAll(requests)
RequireAll(requests, w) ==
  /\ Len(batches) < MaxBatch
  /\ \E r \in {mapRequests(Cur(w), requests, Len(batches) + 1, <<>>)} :
       /\ Len(r.st.calls) <= MaxCalls
       /\ Commit(r.st)
       /\ batches' = Append(batches, [items |-> r.items, results |-> <<>>,
                                      out |-> Pending])
  /\ UNCHANGED <<descriptors, resolvers, releases, probe>>
  /\ UNCHANGED <<hostVars, registerCalls>>

\* require resumes after its await, lines 61-65
RequireResume(cid) ==
  /\ calls[cid].kind = "load"
  /\ ~calls[cid].done
  /\ loads[calls[cid].lid].stage = "done"
  /\ \E s \in {requireResume(Cur({}), cid)} : Commit(s)
  /\ UNCHANGED <<descriptors, resolvers, batches, releases, probe>>
  /\ UNCHANGED <<hostVars, registerCalls>>

\* loadModule resumes after the await of a dependency
DepResumeWithin(cap, lid, w) ==
  /\ loads[lid].stage = "dep"
  /\ callOutcome(Cur(w), loads[lid].await).st # "pending"
  /\ \E s \in {afterDep(Cur(w), lid)} :
       /\ Len(s.calls) <= cap
       /\ Commit(s)
  /\ UNCHANGED <<descriptors, resolvers, batches, releases, probe>>
  /\ UNCHANGED <<hostVars, registerCalls>>

DepResume(lid, w) == DepResumeWithin(MaxCalls, lid, w)

\* the resolver awaited by a load settles: a module, null, or a rejection
ResolverSettles(lid, outcome, w) ==
  /\ loads[lid].stage = "resolver"
  /\ \E s \in {afterResolver(Cur(w), lid, outcome)} : Commit(s)
  /\ UNCHANGED <<descriptors, resolvers, batches, releases, probe>>
  /\ UNCHANGED <<hostVars, registerCalls>>

\* the local import or script awaited by a load settles
LocalSettles(lid, ok, w) ==
  /\ loads[lid].stage = "local"
  /\ \E s \in {afterLocal(Cur(w), lid, ok)} : Commit(s)
  /\ UNCHANGED <<descriptors, resolvers, batches, releases, probe>>
  /\ UNCHANGED <<hostVars, registerCalls>>

\* the CDN import or script awaited by a load settles
CdnSettles(lid, ok, w) ==
  /\ loads[lid].stage = "cdn"
  /\ \E s \in {afterCdn(Cur(w), lid, ok)} : Commit(s)
  /\ UNCHANGED <<descriptors, resolvers, batches, releases, probe>>
  /\ UNCHANGED <<hostVars, registerCalls>>

\* a mapper of requireAll resumes after its await
MapperResume(bid, i) ==
  /\ batches[bid].items[i].state = "await"
  /\ callOutcome(Cur({}), batches[bid].items[i].cid).st # "pending"
  /\ batches' = [batches EXCEPT ![bid] =
                   mapperResume(@, i, callOutcome(Cur({}), batches[bid].items[i].cid))]
  /\ UNCHANGED <<descriptors, resolvers, loaded, loading, loads, calls, releases,
                 probe>>
  /\ UNCHANGED <<hostVars, registerCalls>>

RequireArgs == {<<NX, STAR>>, <<NX, CARET100>>, <<NY, STAR>>}

BatchRequests ==
  { <<Request(NX, CARET100, FALSE), Request(NY, STAR, TRUE)>>,
    <<Request(NY, STAR, FALSE), Request(NX, STAR, TRUE)>>,
    <<Request(NX, STAR, TRUE), Request(NX, CARET100, TRUE)>>,
    <<Request(NX, STAR, FALSE)>> }

ResumeWithin(cap) ==
  \/ \E cid \in 1..Len(calls) : RequireResume(cid)
  \/ \E lid \in 1..Len(loads), w \in Windows : DepResumeWithin(cap, lid, w)
  \/ \E lid \in 1..Len(loads), o \in {"value", "absent", "error"}, w \in Windows :
       ResolverSettles(lid, o, w)
  \/ \E lid \in 1..Len(loads), ok \in BOOLEAN, w \in Windows : LocalSettles(lid, ok, w)
  \/ \E lid \in 1..Len(loads), ok \in BOOLEAN, w \in Windows : CdnSettles(lid, ok, w)

Resume == ResumeWithin(MaxCalls)

Next ==
  \/ \E d \in Catalog : Register(d)
  \/ AddResolver
  \/ \E a \in RequireArgs, w \in Windows : Require(a[1], a[2], w)
  \/ \E a \in RequireArgs : Release(a[1], a[2])
  \/ Resume

Spec == Init /\ [][Next]_vars

\* the batch entry point with its continuations
NextBatch ==
  \/ \E d \in Catalog : Register(d)
  \/ AddResolver
  \/ \E rs \in BatchRequests, w \in Windows : RequireAll(rs, w)
  \/ \E bid \in 1..Len(batches), i \in 1..2 :
       i <= Len(batches[bid].items) /\ MapperResume(bid, i)
  \/ Resume

SpecBatch == Init /\ [][NextBatch]_vars

(***************************************************************************)
(* The coordinator under fair scheduling: every source invocation that was *)
(* started settles, with some outcome, and every continuation that is      *)
(* ready to resume is run by the job queue.  Catalog is acyclic.           *)
(***************************************************************************)
LiveRequests == {<<Request(NY, STAR, TRUE), Request(NX, STAR, FALSE)>>}

NextLive ==
  \/ \E d \in Catalog : Register(d)
  \/ AddResolver
  \/ \E w \in Windows : Require(NX, STAR, w)
  \/ \E rs \in LiveRequests, w \in Windows : RequireAll(rs, w)
  \/ \E bid \in 1..Len(batches), i \in 1..2 :
       i <= Len(batches[bid].items) /\ MapperResume(bid, i)
  \/ Resume

Fairness ==
  /\ WF_vars(\E cid \in 1..Len(calls) : RequireResume(cid))
  /\ WF_vars(\E lid \in 1..Len(loads), w \in Windows : DepResume(lid, w))
  /\ WF_vars(\E lid \in 1..Len(loads), o \in {"value", "absent", "error"},
                w \in Windows : ResolverSettles(lid, o, w))
  /\ WF_vars(\E lid \in 1..Len(loads), ok \in BOOLEAN, w \in Windows :
               LocalSettles(lid, ok, w))
  /\ WF_vars(\E lid \in 1..Len(loads), ok \in BOOLEAN, w \in Windows :
               CdnSettles(lid, ok, w))
  /\ WF_vars(\E bid \in 1..Len(batches), i \in 1..2 :
               i <= Len(batches[bid].items) /\ MapperResume(bid, i))

SpecLive == Init /\ [][NextLive]_vars /\ Fairness

(***************************************************************************)
(* A descriptor with two dependencies: d needs y, then x.                  *)
(***************************************************************************)
ND == <<"d">>
D1 == Desc(ND, V100, <<NY, NX>>, TRUE, TRUE, NoGlobal, "esm")
DepsCatalog == {D1, Y1, X1}
DepsCalls == MaxCalls + 1

NextDeps ==
  \/ \E d \in DepsCatalog : Register(d)
  \/ AddResolver
  \/ \E w \in Windows : RequireWithin(DepsCalls, ND, STAR, w)
  \/ ResumeWithin(DepsCalls)

SpecDeps == Init /\ [][NextDeps]_vars

(***************************************************************************)
(* A descriptor that depends on itself, next to descriptors that do not.   *)
(***************************************************************************)
NZ == <<"z">>
Z1 == Desc(NZ, V100, <<NZ>>, TRUE, TRUE, NoGlobal, "esm")
CycleCatalog == {Z1, X2, Y1}
CycleArgs == {<<NZ, STAR>>, <<NX, STAR>>}
CycleCalls == MaxStack + 1

NextCycle ==
  \/ \E d \in CycleCatalog : Register(d)
  \/ AddResolver
  \/ \E a \in CycleArgs, w \in Windows : RequireWithin(CycleCalls, a[1], a[2], w)
  \/ ResumeWithin(CycleCalls)

SpecCycle == Init /\ [][NextCycle]_vars

(***************************************************************************)
(* createSharedModulesAPI: each facade keeps its own usage record.         *)
(***************************************************************************)
Usage(name, range) == [name |-> name, versionRange |-> range]

\* used.findIndex(u => ...): the first index that matches, 0 for -1
RECURSIVE findIndex(_, _, _, _)
findIndex(u, name, range, i) ==
  IF i > Len(u) THEN 0
  ELSE IF u[i].name = name /\ u[i].versionRange = range THEN i
  ELSE findIndex(u, name, range, i + 1)

\* used.splice(idx, 1)
splice(u, idx) == SubSeq(u, 1, idx - 1) \o SubSeq(u, idx + 1, Len(u))

\* a variant that drops the first record of the name, whatever its range
usedAfterReleaseByName(u, name, range) ==
  IF \E i \in 1..Len(u) : u[i].name = name
  THEN splice(u, CHOOSE i \in 1..Len(u) :
                   u[i].name = name /\ \A j \in 1..(i - 1) : u[j].name # name)
  ELSE u

\* lines 278-279: if (idx >= 0) used.splice(idx, 1)
usedAfterRelease(u, name, range) ==
  LET idx == findIndex(u, name, range, 1)
  IN  IF idx > 0 THEN splice(u, idx) ELSE u

FacadeOp(f, name, range, cid, state) ==
  [facade |-> f, name |-> name, range |-> range, cid |-> cid, state |-> state]

\* facade.require(name, range) up to its await, lines 271-272
FacadeRequire(f, name, range, w) ==
  /\ Len(calls) < MaxCalls
  /\ \E s \in {requireSync(Cur(w), name, range, 0, 0)} :
       /\ Len(s.calls) <= MaxCalls
       /\ Commit(s)
  /\ facadeCalls' = Append(facadeCalls,
                           FacadeOp(f, name, range, Len(calls) + 1, "await"))
  /\ UNCHANGED <<descriptors, resolvers, batches, releases, probe>>
  /\ UNCHANGED <<used, released, extCalls, installs, urls, registerCalls>>

\* facade.require resumed, lines 272-274: push on success, rethrow on failure
FacadeResume(i) ==
  /\ facadeCalls[i].state = "await"
  /\ callOutcome(Cur({}), facadeCalls[i].cid).st # "pending"
  /\ LET ok == callOutcome(Cur({}), facadeCalls[i].cid).st = "ok"
         f == facadeCalls[i].facade
     IN  /\ facadeCalls' = [facadeCalls EXCEPT ![i].state =
                              IF ok THEN "pushed" ELSE "failed"]
         /\ used' = IF ok
                    THEN [used EXCEPT ![f] =
                            Append(@, Usage(facadeCalls[i].name, facadeCalls[i].range))]
                    ELSE used
  /\ UNCHANGED <<descriptors, resolvers, loaded, loading, loads, calls, batches,
                 releases, probe>>
  /\ UNCHANGED <<released, extCalls, installs, urls, registerCalls>>

\* facade.release(name, range), lines 276-280
FacadeRelease(f, name, range) ==
  /\ releases < MaxRelease
  /\ releases' = releases + 1
  /\ loaded' = release(loaded, name, range)
  /\ used' = [used EXCEPT ![f] = usedAfterRelease(@, name, range)]
  /\ released' = [facade |-> f, name |-> name, range |-> range,
                  nth |-> releases + 1]
  /\ UNCHANGED <<descriptors, resolvers, loading, loads, calls, batches, probe>>
  /\ UNCHANGED <<facadeCalls, extCalls, installs, urls, registerCalls>>

FacadeArgs == {<<NX, STAR>>, <<NX, CARET100>>}

\* the facades over a registry without resolvers: x loads from its global
\* binding or fails
NextFacade ==
  \/ Register(X1)
  \/ \E f \in Facades, a \in FacadeArgs, w \in Windows :
       FacadeRequire(f, a[1], a[2], w)
  \/ \E i \in 1..Len(facadeCalls) : FacadeResume(i)
  \/ \E f \in Facades, a \in FacadeArgs : FacadeRelease(f, a[1], a[2])
  \/ \E cid \in 1..Len(calls) : RequireResume(cid)

SpecFacade == Init /\ [][NextFacade]_vars

(***************************************************************************)
(* loadExtensionWithSharedModules: the requested modules are installed     *)
(* under window slots, the import statements of the entry code that name   *)
(* them are rewritten, and the rewritten text is imported from an object   *)
(* URL.  Source text is a sequence of characters; the four regular         *)
(* expressions are matched as the regular-expression engine matches them.  *)
(***************************************************************************)
LowerCase == <<"a", "b", "c", "d", "e", "f", "g", "h", "i", "j", "k", "l", "m">>
               \o <<"n", "o", "p", "q", "r", "s", "t", "u", "v", "w", "x", "y", "z">>
UpperCase == <<"A", "B", "C", "D", "E", "F", "G", "H", "I", "J", "K", "L", "M">>
               \o <<"N", "O", "P", "Q", "R", "S", "T", "U", "V", "W", "X", "Y", "Z">>
LowerSet == {LowerCase[i] : i \in 1..26}
UpperSet == {UpperCase[i] : i \in 1..26}

\* the fixed text of the patterns and of their replacements
ImportWord == <<"i", "m", "p", "o", "r", "t">>
FromWord == <<"f", "r", "o", "m">>
AsWord == <<"a", "s">>
ConstText == <<"c", "o", "n", "s", "t", " ">>
ConstBraceText == <<"c", "o", "n", "s", "t", " ", "{">>
EqWindowText == <<" ", "=", " ", "w", "i", "n", "d", "o", "w", ".">>
BraceEqWindowText == <<"}", " ", "=", " ", "w", "i", "n", "d", "o", "w", ".">>
DefaultOrWindowText == <<".", "d", "e", "f", "a", "u", "l", "t", " ", "|", "|", " ", "w", "i", "n", "d", "o", "w", ".">>
KeyPrefix == <<"_", "_", "P", "Y", "X", "I", "S", "_", "S", "H", "A", "R", "E", "D", "_">>
KeySuffix == <<"_", "_">>

\* [a-zA-Z0-9]
isAlnum(c) == c \in LowerSet \cup UpperSet \cup Digits

\* \w
isWord(c) == isAlnum(c) \/ c = "_"

\* \s over the white space of the model's source texts
isSpace(c) == c \in {" ", "\t", "\n"}

\* String.prototype.toUpperCase on one character
toUpperCase(c) ==
  IF c \in LowerSet THEN UpperCase[CHOOSE i \in 1..26 : LowerCase[i] = c] ELSE c

\* line 238: `__PYXIS_SHARED_${name.replace(/[^a-zA-Z0-9]/g, '_').toUpperCase()}__`
globalKey(name) ==
  KeyPrefix
    \o [i \in 1..Len(name) |-> toUpperCase(IF isAlnum(name[i]) THEN name[i] ELSE "_")]
    \o KeySuffix

\* the characters of /[.*+?^${}()|[\]\\]/
RegexSpecials == {".", "*", "+", "?", "^", "$", "{", "}", "(", ")", "|", "[", "]", "\\"}

\* line 231: str.replace(/[.*+?^${}()|[\]\\]/g, '\\$&')
RECURSIVE escapeRegex(_)
escapeRegex(str) ==
  IF str = <<>> THEN <<>>
  ELSE (IF Head(str) \in RegexSpecials THEN <<"\\", Head(str)>> ELSE <<Head(str)>>)
         \o escapeRegex(Tail(str))

\* the atoms of a compiled pattern: a literal text, any character but a
\* line break, one-or-more and zero-or-more of a class (cap names the capture
\* group, 0 for none), one of the two quotes, an optional character
Lit(s) == [t |-> "lit", s |-> s, cls |-> "", cap |-> 0]
AnyChar == [t |-> "any", s |-> <<>>, cls |-> "", cap |-> 0]
Plus(cls, cap) == [t |-> "plus", s |-> <<>>, cls |-> cls, cap |-> cap]
Star(cls) == [t |-> "star", s |-> <<>>, cls |-> cls, cap |-> 0]
Quote == [t |-> "quote", s |-> <<>>, cls |-> "", cap |-> 0]
Opt(s) == [t |-> "opt", s |-> s, cls |-> "", cap |-> 0]

\* new RegExp(source) on the part of the source escapeRegex produced: an
\* escaped character is that character, an unescaped dot is any character;
\* escapeRegex leaves no other special character unescaped
RECURSIVE compileName(_)
compileName(src) ==
  IF src = <<>> THEN <<>>
  ELSE IF Head(src) = "\\" /\ Len(src) >= 2
    THEN <<Lit(<<src[2]>>)>> \o compileName(Tail(Tail(src)))
  ELSE IF Head(src) = "." THEN <<AnyChar>> \o compileName(Tail(src))
  ELSE <<Lit(<<Head(src)>>)>> \o compileName(Tail(src))

\* \s+from\s+['"]${escapeRegex(name)}['"];?
fromClause(name) ==
  <<Plus("space", 0), Lit(FromWord), Plus("space", 0), Quote>>
    \o compileName(escapeRegex(name)) \o <<Quote, Opt(<<";">>)>>

\* lines 242-245: the four regular expressions for one module name
patterns(name) ==
  << \* import\s+(\w+)
     <<Lit(ImportWord), Plus("space", 0), Plus("word", 1)>> \o fromClause(name),
     \* import\s+\{([^}]+)\}
     <<Lit(ImportWord), Plus("space", 0), Lit(<<"{">>), Plus("notbrace", 1), Lit(<<"}">>)>>
       \o fromClause(name),
     \* import\s+\*\s+as\s+(\w+)
     <<Lit(ImportWord), Plus("space", 0), Lit(<<"*">>), Plus("space", 0), Lit(AsWord),
       Plus("space", 0), Plus("word", 1)>> \o fromClause(name),
     \* import\s+(\w+)\s*,\s*\{([^}]+)\}
     <<Lit(ImportWord), Plus("space", 0), Plus("word", 1), Star("space"), Lit(<<",">>),
       Star("space"), Lit(<<"{">>), Plus("notbrace", 2), Lit(<<"}">>)>>
       \o fromClause(name) >>

\* lines 242-245: the replacement of pattern k with $1 and $2 filled in
replacement(k, key, caps) ==
  LET defaultBinding == ConstText \o caps[1] \o EqWindowText \o key
                          \o DefaultOrWindowText \o key \o <<";">>
  IN  CASE k = 1 -> defaultBinding
        [] k = 2 -> ConstBraceText \o caps[1] \o BraceEqWindowText \o key \o <<";">>
        [] k = 3 -> ConstText \o caps[1] \o EqWindowText \o key \o <<";">>
        [] k = 4 -> defaultBinding \o <<" ">> \o ConstBraceText \o caps[2] \o BraceEqWindowText
                      \o key \o <<";">>

inClass(cls, c) ==
  CASE cls = "space" -> isSpace(c)
    [] cls = "word" -> isWord(c)
    [] cls = "notbrace" -> c # "}"

\* the end of the longest run of class characters starting at pos
spanEnd(text, pos, cls) ==
  CHOOSE e \in pos..(Len(text) + 1) :
    /\ \A i \in pos..(e - 1) : inClass(cls, text[i])
    /\ e = Len(text) + 1 \/ ~inClass(cls, text[e])

NoMatch == [ok |-> FALSE, end |-> 0, caps |-> <<<<>>, <<>>>>]

\* one atom at pos: the position after it, or 0 when it does not match.  In
\* these patterns the character after a repeated class is never in the class,
\* so the longest run is the only run the engine can succeed with.
atomEnd(text, pos, atom) ==
  LET here == pos <= Len(text)
      n == Len(atom.s)
  IN  CASE atom.t = "lit" ->
             IF pos + n - 1 <= Len(text) /\ SubSeq(text, pos, pos + n - 1) = atom.s
             THEN pos + n ELSE 0
        [] atom.t = "any" -> IF here /\ text[pos] # "\n" THEN pos + 1 ELSE 0
        [] atom.t = "quote" -> IF here /\ text[pos] \in {"'", "\""} THEN pos + 1 ELSE 0
        [] atom.t = "opt" -> IF here /\ <<text[pos]>> = atom.s THEN pos + 1 ELSE pos
        [] atom.t = "star" -> spanEnd(text, pos, atom.cls)
        [] atom.t = "plus" ->
             IF spanEnd(text, pos, atom.cls) > pos THEN spanEnd(text, pos, atom.cls)
             ELSE 0

\* the pattern from its atom k on, matched at pos
RECURSIVE matchFrom(_, _, _, _, _)
matchFrom(text, pos, pat, k, caps) ==
  IF k > Len(pat) THEN [ok |-> TRUE, end |-> pos, caps |-> caps]
  ELSE CHOOSE r \in
         { IF e = 0 THEN NoMatch
           ELSE matchFrom(text, e, pat, k + 1,
                          IF pat[k].cap = 0 THEN caps
                          ELSE [caps EXCEPT ![pat[k].cap] = SubSeq(text, pos, e - 1)])
           : e \in {atomEnd(text, pos, pat[k])} } : TRUE

\* the leftmost position from pos on where the pattern matches, 0 when none
firstMatch(text, pos, pat) ==
  CHOOSE r \in
    { IF starts = {} THEN 0 ELSE CHOOSE q \in starts : \A q2 \in starts : q <= q2
      : starts \in {{p \in pos..Len(text) :
                       matchFrom(text, p, pat, 1, <<<<>>, <<>>>>).ok}} } : TRUE

\* text.replace(regex, replace) with the g flag, from pos on: the leftmost
\* match is replaced and the search resumes after it
RECURSIVE replaceFrom(_, _, _, _, _)
RECURSIVE replaceAt(_, _, _, _, _, _)
replaceAt(text, pos, p, pat, k, key) ==
  CHOOSE r \in
    { SubSeq(text, pos, p - 1) \o replacement(k, key, m.caps)
        \o replaceFrom(text, m.end, pat, k, key)
      : m \in {matchFrom(text, p, pat, 1, <<<<>>, <<>>>>)} } : TRUE

replaceFrom(text, pos, pat, k, key) ==
  CHOOSE r \in
    { IF p = 0 THEN SubSeq(text, pos, Len(text))
      ELSE replaceAt(text, pos, p, pat, k, key)
      : p \in {firstMatch(text, pos, pat)} } : TRUE

\* line 248 for one module: the four replacements, each on the result of the
\* one before
RECURSIVE applyPatterns(_, _, _)
applyPatterns(text, name, k) ==
  IF k > 4 THEN text
  ELSE CHOOSE r \in
         { applyPatterns(t, name, k + 1)
           : t \in {replaceFrom(text, 1, patterns(name)[k], k, globalKey(name))} } : TRUE

\* lines 237-249, the text: the modules of the map in insertion order
RECURSIVE transformAll(_, _)
transformAll(text, names) ==
  IF names = <<>> THEN text
  ELSE CHOOSE r \in
         { transformAll(t, Tail(names)) : t \in {applyPatterns(text, Head(names), 1)} }
         : TRUE

\* line 239 for every entry of the map, in insertion order
installAll(results, e) ==
  [i \in 1..Len(results) |->
     [key |-> globalKey(results[i].name), name |-> results[i].name,
      module |-> results[i].module, ext |-> e]]

\* URL.createObjectURL(blob) for the call e
createObjectURL(us, e) == Append(us, [ext |-> e, revoked |-> FALSE])

\* a variant that leaves the URL alive
revokeObjectURLNever(us, u) == us

\* line 257: URL.revokeObjectURL(url)
revokeObjectURL(us, u) == [us EXCEPT ![u].revoked = TRUE]

\* the module object the dynamic import of call e evaluates to
ExtModule(e) == [load |-> 0, src |-> "import", idx |-> e]

(***************************************************************************)
(* Entry code of the model: import statements of the four forms and other  *)
(* statements, one per line.                                               *)
(***************************************************************************)
NAB == <<"a", ".", "b">>
NAdashB == <<"a", "-", "b">>
DQ == "\""
SQ == "'"

Item(member, local) == [member |-> member, local |-> local]

ImportStmt(form, local, items, module, q, semi) ==
  [form |-> form, local |-> local, items |-> items, module |-> module,
   q |-> q, semi |-> semi, raw |-> <<>>]

OtherStmt(raw) ==
  [form |-> "other", local |-> <<>>, items |-> <<>>, module |-> <<>>,
   q |-> DQ, semi |-> FALSE, raw |-> raw]

renderItem(it) ==
  IF it.local = it.member THEN it.member ELSE it.member \o <<" ", "a", "s", " ">> \o it.local

RECURSIVE renderItems(_)
renderItems(items) ==
  IF items = <<>> THEN <<>>
  ELSE IF Len(items) = 1 THEN renderItem(items[1])
  ELSE renderItem(items[1]) \o <<",", " ">> \o renderItems(Tail(items))

renderStmt(s) ==
  LET source == <<s.q>> \o s.module \o <<s.q>> \o (IF s.semi THEN <<";">> ELSE <<>>)
      from == <<" ", "f", "r", "o", "m", " ">> \o source
  IN  CASE s.form = "default" -> <<"i", "m", "p", "o", "r", "t", " ">> \o s.local \o from
        [] s.form = "named" -> <<"i", "m", "p", "o", "r", "t", " ", "{">> \o renderItems(s.items) \o <<"}">> \o from
        [] s.form = "namespace" -> <<"i", "m", "p", "o", "r", "t", " ", "*", " ", "a", "s", " ">> \o s.local \o from
        [] s.form = "both" ->
             <<"i", "m", "p", "o", "r", "t", " ">> \o s.local \o <<",", " ", "{">> \o renderItems(s.items) \o <<"}">> \o from
        [] s.form = "side" -> <<"i", "m", "p", "o", "r", "t", " ">> \o source
        [] s.form = "other" -> s.raw

RECURSIVE renderProgram(_)
renderProgram(p) ==
  IF p = <<>> THEN <<>>
  ELSE IF Len(p) = 1 THEN renderStmt(p[1])
  ELSE renderStmt(p[1]) \o <<"\n">> \o renderProgram(Tail(p))

Statements ==
  { ImportStmt("default", <<"F", "o", "o">>, <<>>, NX, DQ, TRUE),
    ImportStmt("named", <<>>, <<Item(<<"a">>, <<"a">>), Item(<<"b", "_", "1">>, <<"b", "_", "1">>)>>, NX, SQ, FALSE),
    ImportStmt("namespace", <<"N">>, <<>>, NX, DQ, TRUE),
    ImportStmt("both", <<"A">>, <<Item(<<"a">>, <<"a">>)>>, NX, DQ, TRUE),
    ImportStmt("default", <<"B">>, <<>>, NAB, SQ, TRUE),
    ImportStmt("default", <<"B">>, <<>>, NAdashB, DQ, TRUE),
    ImportStmt("named", <<>>, <<Item(<<"a">>, <<"c">>)>>, NX, DQ, TRUE),
    ImportStmt("default", <<"A">>, <<>>, NY, DQ, TRUE),
    ImportStmt("side", <<>>, <<>>, NX, DQ, TRUE),
    OtherStmt(<<"l", "e", "t", " ", "v", " ", "=", " ", "1", ";">>) }

\* the entry codes: one statement, or two on two lines
Programs == {<<s>> : s \in Statements} \cup {<<s, t>> : s, t \in Statements}
EntryCodes == {renderProgram(p) : p \in Programs}

\* the key orders of the map requireAll returned
ResolvedLists == {<<>>, <<NX>>, <<NAB>>, <<NX, NAB>>, <<NAB, NX>>}

\* the rewrite alone, on every entry code and every map
InitRewrite ==
  /\ descriptors = EmptyMap
  /\ resolvers = <<>>
  /\ loaded = <<>>
  /\ loading = EmptyMap
  /\ loads = <<>>
  /\ calls = <<>>
  /\ batches = <<>>
  /\ releases = 0
  /\ probe \in [code : EntryCodes, names : ResolvedLists, done : {FALSE},
                result : {<<>>}]
  /\ HostInit

\* lines 235-249 on the probe
Rewrite ==
  /\ ~probe.done
  /\ \E t \in {transformAll(probe.code, probe.names)} :
       probe' = [probe EXCEPT !.done = TRUE, !.result = t]
  /\ UNCHANGED <<descriptors, resolvers, loaded, loading, loads, calls, batches,
                 releases>>
  /\ UNCHANGED <<hostVars, registerCalls>>

SpecRewrite == InitRewrite /\ [][Rewrite]_vars

(***************************************************************************)
(* The loader over a registry whose modules are found under global         *)
(* bindings: x, and two modules whose names differ in one character.       *)
(***************************************************************************)
MaxExt == 2

AB1 == Desc(NAB, V100, <<>>, FALSE, FALSE, GX, "esm")
AB2 == Desc(NAdashB, V100, <<>>, FALSE, FALSE, GY, "esm")
LoaderCatalog == {X1, AB1, AB2}

\* manifest.sharedDependencies; <<>> stands for a manifest without the field
Manifests ==
  { <<>>,
    <<Request(NX, STAR, FALSE)>>,
    <<Request(NAB, STAR, FALSE), Request(NAdashB, STAR, TRUE)>> }

LoaderCodes ==
  { renderProgram(<<ImportStmt("default", <<"F", "o", "o">>, <<>>, NX, DQ, TRUE)>>),
    renderProgram(<<ImportStmt("default", <<"B">>, <<>>, NAB, SQ, TRUE),
                    ImportStmt("default", <<"B">>, <<>>, NAdashB, DQ, TRUE)>>) }

ExtCall(code, bid, stage, transformed, url) ==
  [code |-> code, bid |-> bid, stage |-> stage, transformed |-> transformed,
   url |-> url, out |-> Pending]

\* lines 233-253 up to the first await: of requireAll when the manifest has
\* sharedDependencies, else of the dynamic import
LoadExtension(code, deps, w) ==
  /\ Len(extCalls) < MaxExt
  /\ IF deps = <<>>
     THEN /\ extCalls' = Append(extCalls, ExtCall(code, 0, "import", code, Len(urls) + 1))
          /\ urls' = createObjectURL(urls, Len(extCalls) + 1)
          /\ UNCHANGED <<loaded, loading, loads, calls, batches>>
     ELSE /\ Len(batches) < MaxBatch
          /\ \E r \in {mapRequests(Cur(w), deps, Len(batches) + 1, <<>>)} :
               /\ Len(r.st.calls) <= MaxCalls
               /\ Commit(r.st)
               /\ batches' = Append(batches, [items |-> r.items, results |-> <<>>,
                                              out |-> Pending])
          /\ extCalls' = Append(extCalls,
                                ExtCall(code, Len(batches) + 1, "requireAll", <<>>, 0))
          /\ UNCHANGED urls
  /\ UNCHANGED <<descriptors, registerCalls, resolvers, releases, probe, used,
                 facadeCalls, released, installs>>

\* lines 234-253 resumed when requireAll has settled: a rejection ends the
\* call; else the slots are assigned, the text is rewritten, the URL is
\* created and the import starts
ExtResume(e) ==
  /\ extCalls[e].stage = "requireAll"
  /\ batches[extCalls[e].bid].out.st # "pending"
  /\ IF batches[extCalls[e].bid].out.st = "err"
     THEN /\ extCalls' = [extCalls EXCEPT ![e].stage = "done",
                            ![e].out = Rejected(batches[extCalls[e].bid].out.val)]
          /\ UNCHANGED <<installs, urls>>
     ELSE \E results \in {batches[extCalls[e].bid].results} :
            /\ installs' = installs \o installAll(results, e)
            /\ \E t \in {transformAll(extCalls[e].code,
                                      [i \in 1..Len(results) |-> results[i].name])} :
                 extCalls' = [extCalls EXCEPT ![e].stage = "import",
                                ![e].transformed = t, ![e].url = Len(urls) + 1]
            /\ urls' = createObjectURL(urls, e)
  /\ UNCHANGED <<descriptors, registerCalls, resolvers, loaded, loading, loads,
                 calls, batches, releases, probe, used, facadeCalls, released>>

\* lines 254-258: the dynamic import settles, the finally block revokes the
\* URL, and the call returns the module or rethrows
ImportSettles(e, ok) ==
  /\ extCalls[e].stage = "import"
  /\ urls' = revokeObjectURL(urls, extCalls[e].url)
  /\ extCalls' = [extCalls EXCEPT ![e].stage = "done",
                    ![e].out = IF ok THEN Fulfilled(ExtModule(e))
                               ELSE Rejected(Err(0, "ImportFailed", e))]
  /\ UNCHANGED <<descriptors, registerCalls, resolvers, loaded, loading, loads,
                 calls, batches, releases, probe, used, facadeCalls, released,
                 installs>>

NextLoader ==
  \/ \E d \in LoaderCatalog : Register(d)
  \/ \E code \in LoaderCodes, deps \in Manifests, w \in Windows :
       LoadExtension(code, deps, w)
  \/ \E cid \in 1..Len(calls) : RequireResume(cid)
  \/ \E bid \in 1..Len(batches), i \in 1..2 :
       i <= Len(batches[bid].items) /\ MapperResume(bid, i)
  \/ \E e \in 1..Len(extCalls) : ExtResume(e)
  \/ \E e \in 1..Len(extCalls), ok \in BOOLEAN : ImportSettles(e, ok)

SpecLoader == Init /\ [][NextLoader]_vars

(***************************************************************************)
(* The descriptor store alone: any sequence of register calls, the same    *)
(* name and version twice included.                                        *)
(***************************************************************************)
V099 == <<"0", ".", "9", ".", "9">>
V12 == <<"1", ".", "2">>
V129 == <<"1", ".", "2", ".", "9">>
MaxStoreRegister == 3

StoreCatalog ==
  { Desc(NX, v, <<>>, FALSE, TRUE, NoGlobal, "esm") :
      v \in {V099, V100, V12, V120, V129, V200} }
  \cup {Y1}

StoreRanges ==
  { STAR, LATEST, CARET100, <<"~">> \o V120, <<">", "=">> \o V120, V120, V12,
    <<"^">> \o V200, <<"3", ".", "0", ".", "0">> }

storeSize(ds) ==
  LET total[S \in SUBSET DOMAIN ds] ==
        IF S = {} THEN 0
        ELSE LET n == CHOOSE n \in S : TRUE
             IN  Len(ds[n]) + total[S \ {n}]
  IN  total[DOMAIN ds]

\* register(d)
RegisterAny(d) ==
  /\ storeSize(descriptors) < MaxStoreRegister
  /\ descriptors' = register(descriptors, d)
  /\ registerCalls' = countCall(registerCalls, d)
  /\ UNCHANGED <<resolvers, loaded, loading, loads, calls, batches, releases,
                 probe>>
  /\ UNCHANGED hostVars

\* the lists given to registerAll: two descriptors in either version order,
\* the same descriptor twice, two names
StoreLists ==
  {<<d, e>> : d, e \in {Desc(NX, v, <<>>, FALSE, TRUE, NoGlobal, "esm") :
                          v \in {V100, V12, V200}} \cup {Y1}}

\* registerAll(list)
RegisterAllAny(list) ==
  /\ storeSize(descriptors) + Len(list) <= MaxStoreRegister
  /\ descriptors' = registerAll(descriptors, list)
  /\ registerCalls' = countCall(countCall(registerCalls, list[1]), list[2])
  /\ UNCHANGED <<resolvers, loaded, loading, loads, calls, batches, releases,
                 probe>>
  /\ UNCHANGED hostVars

NextStore ==
  \/ \E d \in StoreCatalog : RegisterAny(d)
  \/ \E list \in StoreLists : RegisterAllAny(list)

SpecStore == Init /\ [][NextStore]_vars

(***************************************************************************)
(* The range test alone, on versions and ranges of every shape.            *)
(***************************************************************************)
ProbeVersions ==
  { V120, <<"1", ".", "9", ".", "9">>, V200, V099, V129,
    <<"1", ".", "3", ".", "0">>, <<"1", ".", "1", ".", "9">>, V12,
    <<"v">> \o V120, V120 \o <<"-", "b">>, V120 \o <<".", "5">>, <<>>,
    <<"1", ".", "1", "0", ".", "0">>, <<"1", ".", "x", ".", "3">>, <<"1">> }

ProbeRanges ==
  { STAR, LATEST, <<"^">> \o V120, <<"~">> \o V120, <<">", "=">> \o V120, V120,
    <<"^">> \o V12, <<"~">> \o <<"1">>, <<">", "=">> \o <<"1">>,
    <<">">> \o V120, <<"=">> \o V120, V12, <<"^">>, <<">", "=">>,
    <<"~">> \o V129, <<"^">> \o V129, <<">", "=">> \o V129,
    <<"^", "v">> \o V120, <<"~">> \o V120 \o <<"-", "b">>,
    <<"^">> \o <<"1", ".", "1", "0">>, <<"l", "a", "t", "e">> }

InitSatisfies ==
  /\ descriptors = EmptyMap
  /\ resolvers = <<>>
  /\ loaded = <<>>
  /\ loading = EmptyMap
  /\ loads = <<>>
  /\ calls = <<>>
  /\ batches = <<>>
  /\ releases = 0
  /\ probe \in [version : ProbeVersions, range : ProbeRanges, result : {"none"}]
  /\ HostInit

\* satisfies(version, range) is called on the probe
Satisfies ==
  /\ probe.result = "none"
  /\ probe' = [probe EXCEPT !.result =
                 IF satisfies(probe.version, probe.range) THEN "true" ELSE "false"]
  /\ UNCHANGED <<descriptors, resolvers, loaded, loading, loads, calls, batches,
                 releases>>
  /\ UNCHANGED <<hostVars, registerCalls>>

SpecSatisfies == InitSatisfies /\ [][Satisfies]_vars

(***************************************************************************)
(* Properties of the descriptor store and of the range test.               *)
(***************************************************************************)
\* the registered descriptors of a name, as a set
RegisteredOf(name) ==
  IF name \in DOMAIN descriptors
  THEN {descriptors[name][i] : i \in 1..Len(descriptors[name])}
  ELSE {}

\* the three components of a version as the specification words them: the
\* text from the first digit on, cut at the dots; a component that is missing
\* or is not a plain number reads as 0
FirstDigit(v) ==
  IF \E i \in 1..Len(v) : v[i] \in Digits
  THEN CHOOSE i \in 1..Len(v) :
         v[i] \in Digits /\ \A j \in 1..(i - 1) : v[j] \notin Digits
  ELSE Len(v) + 1

VersionBody(v) == SubSeq(v, FirstDigit(v), Len(v))

DotsOf(b) == {i \in 1..Len(b) : b[i] = "."}

KthDot(b, k) ==
  IF k = 0 THEN 0
  ELSE IF Cardinality(DotsOf(b)) >= k
  THEN CHOOSE p \in DotsOf(b) : Cardinality({q \in DotsOf(b) : q <= p}) = k
  ELSE Len(b) + 1

RECURSIVE DecimalValue(_)
DecimalValue(t) ==
  IF t = <<>> THEN 0
  ELSE 10 * DecimalValue(SubSeq(t, 1, Len(t) - 1)) + DigitVal(t[Len(t)])

Component(v, k) ==
  LET b == VersionBody(v)
      t == IF Cardinality(DotsOf(b)) >= k - 1
           THEN SubSeq(b, KthDot(b, k - 1) + 1, KthDot(b, k) - 1)
           ELSE <<>>
  IN  IF t # <<>> /\ \A i \in 1..Len(t) : t[i] \in Digits
      THEN DecimalValue(t) ELSE 0

\* v >= w in the lexicographic order over (major, minor, patch)
VersionAtLeast(v, w) ==
  \/ Component(v, 1) > Component(w, 1)
  \/ /\ Component(v, 1) = Component(w, 1)
     /\ \/ Component(v, 2) > Component(w, 2)
        \/ /\ Component(v, 2) = Component(w, 2)
           /\ Component(v, 3) >= Component(w, 3)

VersionAbove(v, w) == ~VersionAtLeast(w, v)

RangeRule(v, r) ==
  LET rv1 == SubSeq(r, 2, Len(r))
      rv2 == SubSeq(r, 3, Len(r))
  IN  IF r \in {STAR, LATEST} THEN TRUE
      ELSE IF Len(r) >= 1 /\ r[1] = "^"
        THEN Component(v, 1) = Component(rv1, 1) /\ VersionAtLeast(v, rv1)
      ELSE IF Len(r) >= 1 /\ r[1] = "~"
        THEN /\ Component(v, 1) = Component(rv1, 1)
             /\ Component(v, 2) = Component(rv1, 2)
             /\ VersionAtLeast(v, rv1)
      ELSE IF Len(r) >= 2 /\ r[1] = ">" /\ r[2] = "="
        THEN VersionAtLeast(v, rv2)
      ELSE v = r

\* C4: for every name and range, findCompatibleDescriptor returns a descriptor
\* of that name that satisfies the range and that no registered descriptor of
\* the name satisfying the range exceeds in version; it returns null exactly
\* when the name is unknown or no registered version satisfies the range
C4_FindsHighestSatisfying ==
  \A name \in {NX, NY, <<"z">>}, range \in StoreRanges :
    LET i == findCompatibleDescriptor(descriptors, name, range)
        ok == {d \in RegisteredOf(name) : RangeRule(d.version, range)}
    IN  /\ (i = 0) <=> (ok = {})
        /\ i # 0 =>
             /\ descriptors[name][i] \in ok
             /\ descriptors[name][i].name = name
             /\ \A e \in ok : ~VersionAbove(e.version, descriptors[name][i].version)

\* a lower version was registered, then a higher one satisfying the same range,
\* and the lookup answers with the higher one
C4_Witness ==
  /\ NX \in DOMAIN descriptors
  /\ Len(descriptors[NX]) = 3
  /\ {descriptors[NX][i].version : i \in 1..3} = {V099, V100, V129}
  /\ findCompatibleDescriptor(descriptors, NX, CARET100) # 0
  /\ descriptors[NX][findCompatibleDescriptor(descriptors, NX, CARET100)].version = V129

\* C5: satisfies(v, r) is the rule of the specification, evaluated in its
\* order: * or latest; ^ same major and v >= rv; ~ same major and minor and
\* v >= rv; >= v >= rv; otherwise v and r equal as strings; and the examples
\* of the specification come out as stated
ExamplePairs ==
  { <<V120, <<"^">> \o V120, "true">>,
    <<<<"1", ".", "9", ".", "9">>, <<"^">> \o V120, "true">>,
    <<V200, <<"^">> \o V120, "false">>,
    <<V099, <<"^">> \o V120, "false">>,
    <<V120, <<"~">> \o V120, "true">>,
    <<V129, <<"~">> \o V120, "true">>,
    <<<<"1", ".", "3", ".", "0">>, <<"~">> \o V120, "false">>,
    <<V120, <<">", "=">> \o V120, "true">>,
    <<V200, <<">", "=">> \o V120, "true">>,
    <<<<"1", ".", "1", ".", "9">>, <<">", "=">> \o V120, "false">> }

C5_SatisfiesIsTheRule ==
  probe.result # "none" =>
    /\ (probe.result = "true") <=> RangeRule(probe.version, probe.range)
    /\ \A e \in ExamplePairs :
         (e[1] = probe.version /\ e[2] = probe.range) => probe.result = e[3]
    /\ probe.range = STAR => probe.result = "true"

\* the range test has run on a caret range and accepted a higher minor version
C5_Witness ==
  /\ probe.result = "true"
  /\ probe.version = <<"1", ".", "9", ".", "9">>
  /\ probe.range = <<"^">> \o V120

(***************************************************************************)
(* Properties of the load coordinator.                                     *)
(***************************************************************************)
Now == Cur({})
Settled(cid) == callOutcome(Now, cid).st # "pending"
Succeeded(cid) == callOutcome(Now, cid).st = "ok"

\* a step in which require was called; calls'[FirstNew] is the call made first
Issued == Len(calls') > Len(calls)
FirstNew == Len(calls) + 1

\* a loaded instance of the name whose version satisfies the range exists
InstanceLoaded(name, range) ==
  \E k \in 1..Len(loaded) :
    /\ loaded[k].descriptor.name = name
    /\ RangeRule(loaded[k].descriptor.version, range)

SourcesUntouched ==
  /\ Len(loads') = Len(loads)
  /\ \A l \in 1..Len(loads) : loads'[l].attempted = loads[l].attempted

NoRepeat(seq) == \A a, b \in 1..Len(seq) : seq[a] = seq[b] => a = b

\* C1: a require issued with the name and range string of a require that has
\* not settled, while no compatible instance is loaded, starts no load, runs
\* no source and returns the pending load of the earlier call; the calls that
\* share a load settle to the same handle, and a load runs no source twice
C1_Step ==
  Issued =>
    LET c == calls'[FirstNew]
    IN  \A i \in 1..Len(calls) :
          ( /\ calls[i].name = c.name
            /\ calls[i].range = c.range
            /\ ~Settled(i)
            /\ ~InstanceLoaded(c.name, c.range) )
          => /\ c.kind = "join"
             /\ c.lid = calls[i].lid
             /\ SourcesUntouched

C1_Same ==
  /\ \A i, j \in 1..Len(calls) :
       ( /\ calls[i].kind # "hit" /\ calls[j].kind # "hit"
         /\ calls[i].lid = calls[j].lid
         /\ Settled(i) /\ Settled(j) )
       => callOutcome(Now, i) = callOutcome(Now, j)
  /\ \A l \in 1..Len(loads) : NoRepeat(loads[l].attempted)

C1_ParallelRequiresShareOneLoad == [][C1_Step]_vars /\ []C1_Same

\* two callers required the same key in parallel, one load ran, both hold
\* the handle it made
C1_Witness ==
  /\ Len(calls) = 2 /\ Len(loads) = 1
  /\ calls[1].kind = "load" /\ calls[2].kind = "join"
  /\ calls[1].name = calls[2].name /\ calls[1].range = calls[2].range
  /\ calls[1].done /\ Succeeded(1) /\ Succeeded(2)
  /\ calls[1].out = callOutcome(Now, 2)

\* C2: after two require('x','*') calls issued in parallel have both
\* succeeded, with no release and no other require, the instance of x has
\* reference count 2
C2_ParallelRefCountIsTwo ==
  ( /\ Len(calls) = 2 /\ releases = 0
    /\ \A i \in 1..2 : calls[i].name = NX /\ calls[i].range = STAR
                       /\ calls[i].parent = 0
    /\ calls[1].kind = "load" /\ calls[2].kind = "join"
    /\ calls[2].lid = calls[1].lid
    /\ calls[1].done /\ Succeeded(1) /\ Succeeded(2) )
  => \E k \in 1..Len(loaded) :
       /\ loaded[k].module = calls[1].out.val
       /\ loaded[k].refCount = 2

\* C3: every reference count is >= 0 in every state; release leaves a count
\* of 0 at 0, lowers a count by at most one and removes no entry
C3_Step ==
  releases' # releases =>
    /\ Len(loaded') = Len(loaded)
    /\ \A k \in 1..Len(loaded) :
         /\ loaded'[k].key = loaded[k].key
         /\ loaded'[k].module = loaded[k].module
         /\ loaded[k].refCount = 0 => loaded'[k].refCount = 0
         /\ loaded'[k].refCount \in {loaded[k].refCount, loaded[k].refCount - 1}

C3_CountsNeverNegative == \A k \in 1..Len(loaded) : loaded[k].refCount >= 0

C3_ReleaseFloorsAndKeeps == [][C3_Step]_vars /\ []C3_CountsNeverNegative

\* the only holder released twice: the count went 1, 0, 0 and the entry stays
C3_Witness ==
  /\ releases = 2
  /\ Len(calls) = 1 /\ calls[1].done
  /\ Len(loaded) = 1 /\ loaded[1].refCount = 0

\* C7: a load fails by a source only when every available source was tried:
\* every resolver, the local bundle, the CDN URL and the global binding the
\* descriptor has
AvailableSources(l) ==
  {[src |-> "resolver", idx |-> j] : j \in 1..Len(resolvers)}
  \cup (IF l.desc.localPath THEN {[src |-> "local", idx |-> 0]} ELSE {})
  \cup (IF l.desc.cdnUrl THEN {[src |-> "cdn", idx |-> 0]} ELSE {})
  \cup (IF l.desc.globalName # NoGlobal THEN {[src |-> "global", idx |-> 0]} ELSE {})

C7_SourceFailureIsNotFatal ==
  \A lid \in 1..Len(loads) :
    LET l == loads[lid]
    IN  ( /\ l.stage = "done" /\ l.out.st = "err"
          /\ l.out.val.load = lid
          /\ l.out.val.src # "NoDescriptor" )
        => AvailableSources(l) \subseteq {l.attempted[a] : a \in 1..Len(l.attempted)}

\* C8: a require that finds a loaded instance of the name satisfying the range
\* adds one to that instance's count, returns its handle, and changes no other
\* count, no pending entry, no load and no source
C8_Step ==
  (Issued /\ InstanceLoaded(calls'[FirstNew].name, calls'[FirstNew].range)) =>
    LET c == calls'[FirstNew]
    IN  /\ c.kind = "hit"
        /\ c.entry \in 1..Len(loaded)
        /\ loaded[c.entry].descriptor.name = c.name
        /\ RangeRule(loaded[c.entry].descriptor.version, c.range)
        /\ c.done /\ c.out = Fulfilled(loaded[c.entry].module)
        /\ loaded' = [loaded EXCEPT ![c.entry].refCount = @ + 1]
        /\ loading' = loading
        /\ Len(calls') = Len(calls) + 1
        /\ SourcesUntouched

C8_LoadedInstanceIsReused == [][C8_Step]_vars

\* a caller required a name already loaded and holds the second count
C8_Witness ==
  \E c \in 1..Len(calls) :
    /\ calls[c].kind = "hit" /\ calls[c].parent = 0
    /\ loaded[calls[c].entry].refCount = 2
    /\ calls[c].out.val = loaded[calls[c].entry].module

\* C9: when a load succeeds, the cache holds one entry keyed name@version of
\* the resolved descriptor, with count 1 and the value the winning source made
\* as its handle; require returns that value
C9_Step ==
  \A lid \in 1..Len(loads') :
    ( /\ lid > Len(loads) \/ loads[lid].stage # "done"
      /\ loads'[lid].stage = "done" /\ loads'[lid].out.st = "ok" )
    => LET l == loads'[lid]
           key == l.desc.name \o AT \o l.desc.version
           last == l.attempted[Len(l.attempted)]
           at == {k \in 1..Len(loaded') : loaded'[k].key = key}
       IN  /\ Cardinality(at) = 1
           /\ \A k \in at : /\ loaded'[k].refCount = 1
                            /\ loaded'[k].module = l.out.val
                            /\ loaded'[k].descriptor = l.desc
           /\ \A k \in 1..Len(loaded') :
                loaded'[k].key = l.name \o AT \o l.range => l.range = l.desc.version
           /\ \/ l.out.val = Produced(lid, last.src, last.idx)
              \/ /\ l.out.val \in {WindowObject, Undefined}
                 /\ l.desc.globalName # NoGlobal

C9_Returns ==
  \A c \in 1..Len(calls) :
    (calls[c].kind = "load" /\ calls[c].done) => calls[c].out = loads[calls[c].lid].out

C9_LoadCachesUnderVersionKey == [][C9_Step]_vars /\ []C9_Returns

\* require('x','*') resolved 1.0.0, and the cache holds x@1.0.0 with count 1
\* and the handle the caller got
C9_Witness ==
  /\ Len(calls) = 1 /\ calls[1].name = NX /\ calls[1].range = STAR
  /\ calls[1].done /\ calls[1].out.st = "ok"
  /\ Len(loaded) = 1 /\ loaded[1].key = NX \o AT \o V100
  /\ loaded[1].refCount = 1 /\ loaded[1].module = calls[1].out.val

\* C10: the descriptor behind the handle a call got
Served(c) ==
  IF c.kind = "hit" THEN loaded[c.entry].descriptor ELSE loads[c.lid].desc

\* the range rule and the version order on the versions and ranges in use
CatalogVersions == {d.version : d \in Catalog}
CallRanges == {a[2] : a \in RequireArgs} \cup {STAR}
RuleOn == [v \in CatalogVersions, r \in CallRanges |-> RangeRule(v, r)]
AboveOn == [a \in CatalogVersions, b \in CatalogVersions |-> VersionAbove(a, b)]

HighestSatisfying(name, range, v) ==
  /\ \E d \in RegisteredOf(name) : d.version = v
  /\ RuleOn[v, range]
  /\ \A e \in RegisteredOf(name) : RuleOn[e.version, range] => ~AboveOn[e.version, v]

\* C10 as stated: every successful require returns the handle of the highest
\* registered version of the name that satisfies the range
C10_AlwaysNewest ==
  \A c \in 1..Len(calls) :
    Succeeded(c) =>
      HighestSatisfying(calls[c].name, calls[c].range, Served(calls[c]).version)

\* C10 amended: every successful require returns the handle of a registered
\* version of the name that satisfies the range; it is the highest such
\* version when the call was served by a load, and the version of the loaded
\* instance found first when one satisfied the range
C10_NewestUnlessLoaded ==
  \A c \in 1..Len(calls) :
    Succeeded(c) =>
      /\ Served(calls[c]) \in RegisteredOf(calls[c].name)
      /\ RuleOn[Served(calls[c]).version, calls[c].range]
      /\ calls[c].kind # "hit" =>
           HighestSatisfying(calls[c].name, calls[c].range, Served(calls[c]).version)

\* 1.0.0 was loaded first; require('x','*') then returned it while 2.0.0 is
\* registered
C10_Witness ==
  \E c \in 1..Len(calls) :
    /\ calls[c].kind = "hit" /\ calls[c].range = STAR /\ calls[c].name = NX
    /\ Served(calls[c]).version = V100
    /\ X2 \in RegisteredOf(NX)

\* the sources a load has, in the order of the chain
SourceChain(l) ==
  [j \in 1..Len(resolvers) |-> [src |-> "resolver", idx |-> j]]
  \o (IF l.desc.localPath THEN <<[src |-> "local", idx |-> 0]>> ELSE <<>>)
  \o (IF l.desc.cdnUrl THEN <<[src |-> "cdn", idx |-> 0]>> ELSE <<>>)
  \o (IF l.desc.globalName # NoGlobal THEN <<[src |-> "global", idx |-> 0]>> ELSE <<>>)

NothingSatisfies(name, range) ==
  /\ ~InstanceLoaded(name, range)
  /\ \A d \in RegisteredOf(name) : ~RangeRule(d.version, range)

C12_Step ==
  (Issued /\ NothingSatisfies(calls'[FirstNew].name, calls'[FirstNew].range)) =>
    LET c == calls'[FirstNew]
        r == IF c.kind = "hit" THEN c.out ELSE loads'[c.lid].out
    IN  /\ r.st = "err"
        /\ r.val.src = "NoDescriptor"
        /\ loaded' = loaded
        /\ Len(calls') = Len(calls) + 1
        /\ \A l \in 1..Len(loads) : loads'[l].attempted = loads[l].attempted
        /\ \A l \in (Len(loads) + 1)..Len(loads') : loads'[l].attempted = <<>>

C12_NoDescriptorFailsClean == [][C12_Step]_vars

\* 2.0.0 alone is registered and require('x','^1.0.0') failed with nothing
\* tried and nothing cached
C12_Witness ==
  /\ RegisteredOf(NX) = {X2}
  /\ Len(calls) = 1 /\ calls[1].name = NX /\ calls[1].range = CARET100
  /\ calls[1].done /\ calls[1].out.st = "err"
  /\ calls[1].out.val.src = "NoDescriptor"
  /\ loads[1].attempted = <<>>
  /\ loaded = <<>>

\* the requires a load has issued for its dependencies, and the place of one
\* among them in the order of issue
Children(lid) == {c \in 1..Len(calls) : calls[c].parent = lid}
Rank(lid, c) == Cardinality({e \in Children(lid) : e <= c})

\* C13: a load resumed with a failed dependency fails with that failure in the
\* same step, which requests no dependency, attempts no source and leaves the
\* cache alone; such a load has requested no dependency after the failed one
\* and has no instance in the cache
C13_Step ==
  \A lid \in 1..Len(loads) :
    ( /\ loads[lid].stage = "dep"
      /\ callOutcome(Now, loads[lid].await).st = "err"
      /\ loads'[lid] # loads[lid] )
    => /\ loads'[lid].stage = "done"
       /\ loads'[lid].out = callOutcome(Now, loads[lid].await)
       /\ loads'[lid].attempted = <<>>
       /\ calls' = calls
       /\ loaded' = loaded

C13_FailedByDependency ==
  \A lid \in 1..Len(loads) :
    LET l == loads[lid]
    IN  ( /\ l.stage = "done" /\ l.out.st = "err"
          /\ l.out.val.load # lid )
        => /\ l.attempted = <<>>
           /\ Cardinality(Children(lid)) = l.idx
           /\ l.out = callOutcome(Now, l.await)
           /\ \A k \in 1..Len(loaded) : loaded[k].module.load # lid

C13_DependencyFailureStopsLoad == [][C13_Step]_vars /\ []C13_FailedByDependency

\* d needs y then x; y failed, so d failed with y's error and x was never asked
C13_Witness ==
  \E lid \in 1..Len(loads) :
    /\ loads[lid].desc = D1
    /\ loads[lid].stage = "done" /\ loads[lid].out.st = "err"
    /\ loads[lid].idx = 1
    /\ loads[lid].out.val.load # lid
    /\ \A c \in 1..Len(calls) : calls[c].name # NX

\* C14: the requires a load has issued are for its first dependencies, in list
\* order, each with range '*'; all but the last issued have succeeded; a load
\* that has attempted a source has required every dependency with success
C14_DependenciesInOrder ==
  \A lid \in 1..Len(loads) :
    LET l == loads[lid]
        deps == l.desc.dependencies
        ch == Children(lid)
        k == Cardinality(ch)
    IN  /\ k <= Len(deps)
        /\ \A c \in ch :
             /\ calls[c].name = deps[Rank(lid, c)]
             /\ calls[c].range = STAR
             /\ Rank(lid, c) < k => Succeeded(c)
        /\ l.attempted # <<>> =>
             /\ k = Len(deps)
             /\ \A c \in ch : Succeeded(c)

\* d has required y, then x, both with success, and has gone on to its sources
C14_Witness ==
  \E lid \in 1..Len(loads) :
    /\ loads[lid].desc = D1
    /\ loads[lid].attempted # <<>>
    /\ \E c1, c2 \in Children(lid) :
         /\ c1 < c2
         /\ calls[c1].name = NY /\ calls[c2].name = NX
         /\ Succeeded(c1) /\ Succeeded(c2)

\* C19: no two loads with the same name and range string are in flight
C19_OneLoadInFlightPerKey ==
  \A l1, l2 \in 1..Len(loads) :
    ( /\ loads[l1].name = loads[l2].name
      /\ loads[l1].range = loads[l2].range
      /\ loads[l1].stage # "done"
      /\ loads[l2].stage # "done" )
    => l1 = l2

\* two callers wait on the one load in flight for their key
C19_Witness ==
  \E c1, c2 \in 1..Len(calls) :
    /\ calls[c1].kind = "load" /\ calls[c2].kind = "join"
    /\ calls[c1].parent = 0 /\ calls[c2].parent = 0
    /\ calls[c1].lid = calls[c2].lid
    /\ loads[calls[c1].lid].stage # "done"

\* C20: a require issued from within a load, for the name and range string of
\* that load, joins it: it starts no load of its own
C20_ReentrantRequireJoins ==
  \A c \in 1..Len(calls) :
    ( /\ calls[c].parent # 0
      /\ loads[calls[c].parent].name = calls[c].name
      /\ loads[calls[c].parent].range = calls[c].range )
    => /\ calls[c].kind = "join"
       /\ calls[c].lid = calls[c].parent

(***************************************************************************)
(* Properties of the consumer facades.                                     *)
(***************************************************************************)
\* how often a record occurs in a usage record
Occurrences(u, e) == Cardinality({i \in 1..Len(u) : u[i] = e})

UsageRecords == {Usage(a[1], a[2]) : a \in FacadeArgs}

\* the facade operation that took effect in this step, if one did
Resumed(i) == facadeCalls[i].state = "await" /\ facadeCalls'[i].state # "await"
Released == released' # released

\* C15: a facade require that succeeded adds one occurrence of its (name,
\* range) to its facade's record and a failed one adds none; a release takes
\* one occurrence of its (name, range) off its facade's record when there is
\* one; nothing else changes any record
C15_Step ==
  /\ \A i \in 1..Len(facadeCalls) :
       Resumed(i) =>
         LET op == facadeCalls[i]
             e == Usage(op.name, op.range)
             by == IF callOutcome(Now, op.cid).st = "ok" THEN 1 ELSE 0
         IN  /\ facadeCalls'[i].state = (IF by = 1 THEN "pushed" ELSE "failed")
             /\ \A f \in Facades, r \in UsageRecords :
                  Occurrences(used'[f], r) =
                    Occurrences(used[f], r) + (IF f = op.facade /\ r = e THEN by ELSE 0)
  /\ Released =>
       LET op == released'
           e == Usage(op.name, op.range)
       IN  \A f \in Facades, r \in UsageRecords :
             Occurrences(used'[f], r) =
               Occurrences(used[f], r)
                 - (IF f = op.facade /\ r = e /\ Occurrences(used[f], r) > 0
                    THEN 1 ELSE 0)
  /\ (~Released /\ \A i \in 1..Len(facadeCalls) : ~Resumed(i)) => used' = used

C15_UsageFollowsRequireAndRelease == [][C15_Step]_vars

\* facade 1 required x with '*' and with '^1.0.0' and released '^1.0.0': its
\* record keeps '*' only, and facade 2 has none
C15_Witness ==
  /\ used[1] = <<Usage(NX, STAR)>>
  /\ used[2] = <<>>
  /\ released = [facade |-> 1, name |-> NX, range |-> CARET100, nth |-> 1]
  /\ \E i, j \in 1..Len(facadeCalls) :
       /\ facadeCalls[i] = FacadeOp(1, NX, STAR, facadeCalls[i].cid, "pushed")
       /\ facadeCalls[j] = FacadeOp(1, NX, CARET100, facadeCalls[j].cid, "pushed")

(***************************************************************************)
(* Properties of requireAll.                                               *)
(***************************************************************************)
ItemOutcome(b, i) == callOutcome(Now, b.items[i].cid)

\* C6: requireAll fails exactly when the require of a non-optional request
\* fails; when it succeeds the map holds exactly the names whose require
\* succeeded, each with the handle of such a require
C6_RequireAllFailsIffRequiredFails ==
  \A bid \in 1..Len(batches) :
    LET b == batches[bid]
        n == Len(b.items)
        failed == {i \in 1..n : ~b.items[i].optional /\ ItemOutcome(b, i).st = "err"}
        good == {i \in 1..n : ItemOutcome(b, i).st = "ok"}
    IN  /\ b.out.st = "err" => failed # {}
        /\ (\E i \in failed : b.items[i].state # "await") => b.out.st = "err"
        /\ b.out.st = "ok" =>
             /\ failed = {}
             /\ \A i \in 1..n : Settled(b.items[i].cid)
             /\ {b.results[k].name : k \in 1..Len(b.results)}
                  = {b.items[i].name : i \in good}
             /\ \A k \in 1..Len(b.results) :
                  \E i \in good : /\ b.items[i].name = b.results[k].name
                                  /\ ItemOutcome(b, i).val = b.results[k].module

\* an optional request failed, a required one succeeded: the batch succeeded
\* with the one entry
C6_Witness ==
  \E bid \in 1..Len(batches) :
    LET b == batches[bid]
    IN  /\ b.out.st = "ok"
        /\ Len(b.items) = 2 /\ Len(b.results) = 1
        /\ \E i, j \in 1..2 :
             /\ b.items[i].optional /\ ItemOutcome(b, i).st = "err"
             /\ ~b.items[j].optional /\ ItemOutcome(b, j).st = "ok"
             /\ b.results[1].name = b.items[j].name

(***************************************************************************)
(* The extension loader.                                                   *)
(***************************************************************************)
\* C16: modules of different names are installed under different window
\* slots, in one call of the loader and across calls: no two installations
\* of differently named modules use the same slot name.
C16_DistinctNamesDistinctSlots ==
  \A i, j \in 1..Len(installs) :
    installs[i].name # installs[j].name => installs[i].key # installs[j].key

\* C17: the object URL of a call is revoked exactly when the dynamic import
\* of that call has settled: while the import is pending the URL is alive,
\* and once the call has settled, by success or by failure, every URL it
\* created is revoked.
C17_UrlRevokedWhenImportSettles ==
  /\ \A u \in 1..Len(urls) :
       urls[u].revoked <=> extCalls[urls[u].ext].stage = "done"
  /\ \A e \in 1..Len(extCalls) :
       extCalls[e].stage = "import" =>
         /\ extCalls[e].url \in 1..Len(urls)
         /\ urls[extCalls[e].url].ext = e

\* two calls have settled, one with the imported module and one with the
\* failure of the import, and the URL of each is revoked
C17_Witness ==
  \E e, f \in 1..Len(extCalls) :
    /\ extCalls[e].stage = "done" /\ extCalls[e].out = Fulfilled(ExtModule(e))
    /\ extCalls[f].stage = "done" /\ extCalls[f].out.st = "err"
    /\ extCalls[f].out.val.src = "ImportFailed"
    /\ urls[extCalls[e].url].revoked /\ urls[extCalls[f].url].revoked

\* the window slot of each module of the sample maps, written out
SlotOf(name) ==
  IF name = NX THEN <<"_", "_", "P", "Y", "X", "I", "S", "_", "S", "H", "A", "R", "E", "D", "_", "X", "_", "_">> ELSE <<"_", "_", "P", "Y", "X", "I", "S", "_", "S", "H", "A", "R", "E", "D", "_", "A", "_", "B", "_", "_">>

\* the positions that delimit the pieces of s between the separators ch
CutsAt(s, ch) == {0} \cup {i \in 1..Len(s) : s[i] = ch} \cup {Len(s) + 1}
KthCut(s, ch, k) ==
  CHOOSE c \in CutsAt(s, ch) : Cardinality({d \in CutsAt(s, ch) : d < c}) = k
PieceCount(s, ch) == Cardinality(CutsAt(s, ch)) - 1
Piece(s, ch, n) == SubSeq(s, KthCut(s, ch, n - 1) + 1, KthCut(s, ch, n) - 1)

\* s without its leading and trailing white space
Trim(s) ==
  LET ink == {i \in 1..Len(s) : ~isSpace(s[i])}
  IN  IF ink = {} THEN <<>>
      ELSE SubSeq(s, CHOOSE a \in ink : \A b \in ink : a <= b,
                     CHOOSE a \in ink : \A b \in ink : a >= b)

IsIdentifier(s) ==
  /\ s # <<>>
  /\ \A i \in 1..Len(s) : isWord(s[i])
  /\ s[1] \notin Digits

\* what one element of an object pattern binds, as the language reads it:
\* `m` binds m to the member m, `m: l` binds l to the member m, and any other
\* text is not an element of an object pattern
PatternElement(piece) ==
  LET t == Trim(piece)
      colons == {i \in 1..Len(t) : t[i] = ":"}
  IN  IF IsIdentifier(t) THEN {Item(t, t)}
      ELSE IF Cardinality(colons) = 1
        THEN LET c == CHOOSE i \in colons : TRUE
                 m == Trim(SubSeq(t, 1, c - 1))
                 l == Trim(SubSeq(t, c + 1, Len(t)))
             IN  IF IsIdentifier(m) /\ IsIdentifier(l) THEN {Item(m, l)} ELSE {}
      ELSE {}

\* `const A = window.G.default || window.G;`
DefaultBinding(local, G) ==
  <<"c", "o", "n", "s", "t", " ">> \o local \o <<" ", "=", " ", "w", "i", "n", "d", "o", "w", ".">> \o G \o <<".", "d", "e", "f", "a", "u", "l", "t", " ", "|", "|", " ", "w", "i", "n", "d", "o", "w", ".">> \o G \o <<";">>

\* `const N = window.G;`
NamespaceBinding(local, G) == <<"c", "o", "n", "s", "t", " ">> \o local \o <<" ", "=", " ", "w", "i", "n", "d", "o", "w", ".">> \o G \o <<";">>

\* line is `const {...} = window.G;` and the object pattern binds exactly the
\* listed members, each local name to the member it was imported from
NamedBinding(line, items, G) ==
  LET open == <<"c", "o", "n", "s", "t", " ", "{">>
      close == <<"}", " ", "=", " ", "w", "i", "n", "d", "o", "w", ".">> \o G \o <<";">>
      list == SubSeq(line, Len(open) + 1, Len(line) - Len(close))
  IN  /\ Len(line) > Len(open) + Len(close)
      /\ SubSeq(line, 1, Len(open)) = open
      /\ SubSeq(line, Len(line) - Len(close) + 1, Len(line)) = close
      /\ \A n \in 1..PieceCount(list, ",") :
           PatternElement(Piece(list, ",", n)) # {}
      /\ UNION {PatternElement(Piece(list, ",", n)) : n \in 1..PieceCount(list, ",")}
           = {items[i] : i \in 1..Len(items)}

\* the line the rewrite leaves for the statement s when the modules of
\* `resolved` are installed
LineAsClaimed(s, line, resolved) ==
  IF s.form \in {"default", "named", "namespace", "both"} /\ s.module \in resolved
  THEN LET G == SlotOf(s.module)
           first == DefaultBinding(s.local, G) \o <<" ">>
       IN  CASE s.form = "default" -> line = DefaultBinding(s.local, G)
             [] s.form = "namespace" -> line = NamespaceBinding(s.local, G)
             [] s.form = "named" -> NamedBinding(line, s.items, G)
             [] s.form = "both" ->
                  /\ Len(line) > Len(first)
                  /\ SubSeq(line, 1, Len(first)) = first
                  /\ NamedBinding(SubSeq(line, Len(first) + 1, Len(line)), s.items, G)
  ELSE line = renderStmt(s)

\* C18: after the rewrite, every import statement of one of the four forms
\* that names a resolved module has become a declaration reading the module's
\* slot (the default name from G.default or G, each listed member from the
\* member it names, the namespace name from G), and every other line of the
\* entry code, imports of unresolved modules included, is unchanged.
C18_RewriteBindsImports ==
  probe.done =>
    \E p \in {q \in Programs : renderProgram(q) = probe.code} :
      /\ PieceCount(probe.result, "\n") = Len(p)
      /\ \A n \in 1..Len(p) :
           LineAsClaimed(p[n], Piece(probe.result, "\n", n),
                         {probe.names[i] : i \in 1..Len(probe.names)})

(***************************************************************************)
(* Lifecycle of the cache and of the pending map.                          *)
(***************************************************************************)
\* C21: an entry of the cache is created once: in every step each entry
\* already in the cache keeps its place, its key and its handle, and its
\* reference count goes down only in a release step, so no step replaces an
\* entry with a fresh record of count 1.
C21_Step ==
  \A i \in 1..Len(loaded) :
    /\ i <= Len(loaded')
    /\ loaded'[i].key = loaded[i].key
    /\ loaded'[i].module = loaded[i].module
    /\ loaded'[i].refCount < loaded[i].refCount => releases' # releases

C21_InstanceCreatedOnce == [][C21_Step]_vars

\* C22: a top-level require issued while a load of the same name under another
\* range string is in flight and none under its own range string, and
\* resolving through the descriptor store to the descriptor of that load,
\* does not join it: it starts a load of its own
\* for the same descriptor and both range keys are pending, each for its own
\* load; and each of the two loads that succeeds has attempted sources itself.
C22_Step ==
  (Issued /\ calls'[FirstNew].parent = 0) =>
    \A c \in 1..Len(calls) :
      LET n == calls'[FirstNew]
          o == calls[c]
      IN  ( /\ o.kind = "load" /\ o.parent = 0
            /\ o.name = n.name /\ o.range # n.range
            /\ loads[o.lid].stage # "done"
            /\ loads[o.lid].desc # NullDesc
            /\ \A p \in 1..Len(calls) :
                 ( /\ calls[p].kind = "load"
                   /\ calls[p].name = n.name /\ calls[p].range = n.range )
                 => calls[p].done
            /\ HighestSatisfying(n.name, n.range, loads[o.lid].desc.version)
            /\ \A k \in 1..Len(loaded) :
                 loaded[k].descriptor.name = n.name
                   => ~RuleOn[loaded[k].descriptor.version, n.range] )
          => /\ n.kind = "load"
             /\ n.lid = Len(loads) + 1
             /\ loads'[n.lid].desc = loads[o.lid].desc
             /\ cacheKey(n.name, n.range) \in DOMAIN loading'
             /\ loading'[cacheKey(n.name, n.range)] = n.lid
             /\ cacheKey(o.name, o.range) \in DOMAIN loading'
             /\ loading'[cacheKey(o.name, o.range)] = o.lid

C22_OwnAttempts ==
  \A l1, l2 \in 1..Len(loads) :
    ( /\ l1 # l2
      /\ loads[l1].name = loads[l2].name /\ loads[l1].range # loads[l2].range
      /\ loads[l1].desc = loads[l2].desc
      /\ loads[l1].out.st = "ok" /\ loads[l2].out.st = "ok" )
    => loads[l1].attempted # <<>> /\ loads[l2].attempted # <<>>

C22_DifferentRangesLoadSeparately == []C22_OwnAttempts /\ [][C22_Step]_vars

\* two requires of x under two range strings each ran a load of the same
\* descriptor, and both loads succeeded after attempting sources
C22_Witness ==
  \E c1, c2 \in 1..Len(calls) :
    /\ calls[c1].kind = "load" /\ calls[c2].kind = "load"
    /\ calls[c1].parent = 0 /\ calls[c2].parent = 0
    /\ calls[c1].name = calls[c2].name /\ calls[c1].range # calls[c2].range
    /\ calls[c1].lid # calls[c2].lid
    /\ loads[calls[c1].lid].desc = loads[calls[c2].lid].desc
    /\ loads[calls[c1].lid].out.st = "ok" /\ loads[calls[c2].lid].out.st = "ok"
    /\ loads[calls[c1].lid].attempted # <<>>
    /\ loads[calls[c2].lid].attempted # <<>>
    /\ loads[calls[c1].lid].out.val # loads[calls[c2].lid].out.val

\* C23: a pending entry lives only while the require that started its load
\* has not settled: every key of the pending map belongs to an unsettled call
\* that started the load stored under it, so the map is empty whenever no
\* call is in flight; the step in which that require settles, by success or
\* by failure, removes the entry; and a failure is not remembered: a require
\* issued after a failed one for the same key, with no call for that key in
\* flight and nothing loaded that satisfies the range, starts a fresh load.
C23_PendingOwned ==
  \A k \in DOMAIN loading :
    \E c \in 1..Len(calls) :
      /\ calls[c].kind = "load" /\ ~calls[c].done
      /\ calls[c].lid = loading[k]
      /\ cacheKey(calls[c].name, calls[c].range) = k

C23_Step ==
  /\ \A c \in 1..Len(calls) :
       (calls[c].kind = "load" /\ ~calls[c].done /\ calls'[c].done) =>
         /\ loads[calls[c].lid].stage = "done"
         /\ cacheKey(calls[c].name, calls[c].range) \notin DOMAIN loading'
  /\ (Issued /\ calls'[FirstNew].parent = 0) =>
       LET n == calls'[FirstNew]
       IN  ( /\ \E c \in 1..Len(calls) :
                  /\ calls[c].name = n.name /\ calls[c].range = n.range
                  /\ calls[c].kind = "load" /\ calls[c].done
                  /\ calls[c].out.st = "err"
             /\ \A c \in 1..Len(calls) :
                  (calls[c].name = n.name /\ calls[c].range = n.range) => Settled(c)
             /\ \A k \in 1..Len(loaded) :
                  loaded[k].descriptor.name = n.name
                    => ~RuleOn[loaded[k].descriptor.version, n.range] )
           => /\ n.kind = "load"
              /\ n.lid = Len(loads) + 1

C23_PendingEntryRemovedOnSettle == []C23_PendingOwned /\ [][C23_Step]_vars

\* a require failed and left no pending entry; the next require for the same
\* key started a second load, which is in flight
C23_Witness ==
  \E c1, c2 \in 1..Len(calls) :
    /\ c1 < c2
    /\ calls[c1].name = calls[c2].name /\ calls[c1].range = calls[c2].range
    /\ calls[c1].kind = "load" /\ calls[c1].done /\ calls[c1].out.st = "err"
    /\ calls[c2].kind = "load" /\ calls[c2].lid # calls[c1].lid
    /\ ~calls[c2].done
    /\ loads[calls[c1].lid].attempted # <<>>
    /\ DOMAIN loading = {cacheKey(calls[c2].name, calls[c2].range)}

\* C24: after any sequence of register and registerAll calls, the list of
\* every name is in non-increasing version order (no entry is followed by one
\* of a higher version, major then minor then patch), holds only descriptors
\* of that name, and holds each descriptor as many times as register was
\* called with it.
C24_SortedOneEntryPerCall ==
  /\ \A name \in DOMAIN descriptors :
       \A i, j \in 1..Len(descriptors[name]) :
         /\ descriptors[name][i].name = name
         /\ descriptors[name][i] \in DOMAIN registerCalls
         /\ i < j => ~VersionAbove(descriptors[name][j].version,
                                   descriptors[name][i].version)
  /\ \A d \in DOMAIN registerCalls :
       /\ d.name \in DOMAIN descriptors
       /\ Cardinality({i \in 1..Len(descriptors[d.name]) :
                         descriptors[d.name][i] = d}) = registerCalls[d]

\* x@1.0.0 was registered twice and a higher version once, after it or before
\* it: the list holds the higher version first and 1.0.0 twice
C24_Witness ==
  /\ NX \in DOMAIN descriptors
  /\ Len(descriptors[NX]) = 3
  /\ descriptors[NX][2].version = V100 /\ descriptors[NX][3].version = V100
  /\ descriptors[NX][1].version = V200
  /\ registerCalls[descriptors[NX][2]] = 2

CallSettled(c) == Len(calls) >= c /\ Settled(c)
BatchSettled(b) == Len(batches) >= b /\ batches[b].out.st # "pending"

\* C26: when every started source invocation settles and every ready
\* continuation runs, over an acyclic catalog: every require that was called
\* eventually settles, with a handle or an error; every requireAll that was
\* called eventually settles; and a pending map that is not empty eventually
\* becomes empty.
C26_EveryRequireSettles ==
  /\ \A c \in 1..(MaxCalls + 1) : (Len(calls) >= c) ~> CallSettled(c)
  /\ \A b \in 1..(MaxBatch + 1) : (Len(batches) >= b) ~> BatchSettled(b)
  /\ (loading # EmptyMap) ~> (loading = EmptyMap)

\* a batch and the calls of its two requests have settled, one of them after
\* a load that waited for a resolver or a CDN fetch, and nothing is pending
C26_Witness ==
  /\ Len(batches) >= 1 /\ BatchSettled(1)
  /\ Len(calls) = 2
  /\ \A c \in 1..Len(calls) : Settled(c)
  /\ loading = EmptyMap
  /\ \E l \in 1..Len(loads) :
       /\ loads[l].stage = "done"
       /\ \E i \in 1..Len(loads[l].attempted) :
            loads[l].attempted[i].src \in {"resolver", "cdn"}

\* C27: a facade release(name, range) whose pair has no occurrence in that
\* facade's usage record (never required by it, or already released by it)
\* changes no reference count of the shared registry
C27_Step ==
  Released =>
    LET op == released'
    IN  Occurrences(used[op.facade], Usage(op.name, op.range)) = 0
          => loaded' = loaded

C27_ReleaseOutsideRecordChangesNoCount == [][C27_Step]_vars

=============================================================================
